---- MODULE Spec2Model ----
(***************************************************************************)
(* Model of dodge_ball (src/src/main.rs): the Bevy application set up by   *)
(* main(), i.e. the AppState machine, the virtual/fixed clocks, the player *)
(* and aim entities, the bouncing bullets, the score and the screenshake.  *)
(*                                                                         *)
(* One frame of the Main schedule is                                       *)
(*   First -> PreUpdate -> StateTransition -> RunFixedMainLoop             *)
(*         -> Update -> PostUpdate                                         *)
(* and every system registered in main() is one action.  Systems of one    *)
(* schedule that main() does not order (.after) run in any order: `todo`   *)
(* holds the systems of the running schedule that have not run yet.  Two   *)
(* systems whose data accesses do not conflict commute, so of their two    *)
(* orders only the order of registration is followed (`last`).             *)
(*                                                                         *)
(* Time.  Every frame lasts 250 ms, the largest delta Time<Virtual> hands  *)
(* on, and the period of Time<Fixed> (which main() leaves at the engine's  *)
(* default) is taken to be the same 250 ms: one fixed step per unpaused    *)
(* frame.                                                                  *)
(*                                                                         *)
(* Arithmetic.  f32 is modelled by fixed-point integers:                   *)
(*   lengths   in units of PLAYER_SIZE = 0.02 pixel (PX units = 1 pixel),  *)
(*   times     in milliseconds,                                            *)
(*   dimensionless factors and unit vectors in thousandths (ONE = 1.0),    *)
(* every product of the source is rounded to the nearest unit, as every    *)
(* f32 operation rounds to the nearest float.  NaN is kept as a flag.      *)
(*                                                                         *)
(* Specifications.  Spec is the application from its start, over a few     *)
(* inputs per frame.  Seven more follow some systems over the inputs they  *)
(* can meet in a round or a menu: CollisionSpec (handle_bullet_collision), *)
(* SpawnSpec (spawn_bullet), TextSpec (handle_score and the score text),   *)
(* MenuSpec (the systems that mark the buttons of a menu), ParticleSpec    *)
(* (the trail and burst particles over paused and running frames, with the *)
(* fairness of the frame loop), ControlSpec (the movement systems of a    *)
(* fixed step over keys, sticks and mouse) and ContactSpec (the bullets    *)
(* over the fixed steps of a frame that has accumulated several periods).  *)
(***************************************************************************)
EXTENDS Integers, Sequences, FiniteSets, TLC

(* ------------------------------ bounds --------------------------------- *)

\* a round is followed until MaxBullets bullets are alive: from then on a frame
\* is started only if the round is over, or will be at this frame's transition
MaxBullets == 3

\* a new round is started only while fewer than MaxDraws samples have been drawn
\* from the random stream
MaxDraws == 32

\* the TrailParticle entities are numbered 0 .. MaxEntities - 1 in turn
MaxEntities == 8

(* ------------------------- fixed-point scales -------------------------- *)

\* one pixel, in length units of PLAYER_SIZE (0.02) pixel
PX == 50
\* 1.0 for dimensionless factors and for the components of unit vectors
ONE == 1000

(* --------------------------- program constants ------------------------- *)

PLAYER_MOVEMENT_SPEED_NORMALIZED == 500
BULLET_MOVEMENT_SPEED_NORMALIZED == 400
SCREENSHAKE_ON_SHOOT == 5
SCREENSHAKE_ON_BOUNCE == 3
SCREENSHAKE_ON_DEATH == 10
SCREENSHAKE_DAMPENING == 10
BULLET_PARTICLE_INTERVAL == 100
TRAIL_PARTICLE_LIFETIME == 700
COLLISION_PARTICLE_LIFETIME == 500
COLLISION_PARTICLE_COUNT == 32
GAMEPAD_STICK_DEADZONE == 100
GAMEPAD_AIM_DEADZONE == 500
GAMEPAD_AIM_DISTANCE == 100
MOUSE_DEADZONE == 1000

(* ------------------------------ arithmetic ----------------------------- *)

Abs(a) == IF a < 0 THEN -a ELSE a

Min(a, b) == IF a < b THEN a ELSE b

Max(a, b) == IF a > b THEN a ELSE b

\* a / b rounded to the nearest integer (b > 0), halves away from zero
Rnd(a, b) == IF a >= 0 THEN (2 * a + b) \div (2 * b) ELSE -((2 * (-a) + b) \div (2 * b))

\* f32::clamp(v, lo, hi)
Clamp(v, lo, hi) == IF v < lo THEN lo ELSE IF v > hi THEN hi ELSE v

RECURSIVE SqrtSearch(_, _, _)
SqrtSearch(n, lo, hi) ==
    IF lo >= hi THEN lo
    ELSE LET mid == (lo + hi + 1) \div 2
         IN  IF mid * mid <= n THEN SqrtSearch(n, mid, hi) ELSE SqrtSearch(n, lo, mid - 1)

\* floor of the square root, 0 <= n < 2^31
ISqrt(n) == SqrtSearch(n, 0, 46340)

\* sqrt(n) rounded to the nearest integer
RSqrt(n) == LET r == ISqrt(n) IN IF n - r * r > r THEN r + 1 ELSE r

\* f32::lerp: a + (b - a) * t, t in thousandths
Lerp(a, b, t) == a + Rnd((b - a) * t, ONE)

(* ------------------------------- vectors ------------------------------- *)

Vec(x, y) == [x |-> x, y |-> y, nan |-> FALSE]

\* a vector all of whose components are NaN
NaNVec == [x |-> 0, y |-> 0, nan |-> TRUE]

Len2(dx, dy) == dx * dx + dy * dy

\* a.distance(b) < d, false when a component is NaN
DistLess(a, b, d) == ~a.nan /\ ~b.nan /\ Len2(a.x - b.x, a.y - b.y) < d * d

\* a.distance(b) > d, false when a component is NaN
DistGreater(a, b, d) == ~a.nan /\ ~b.nan /\ Len2(a.x - b.x, a.y - b.y) > d * d

\* the factor that brings the larger component of (dx, dy) into 3000..30000,
\* so that the squared length keeps five significant digits and fits 31 bits
NormScale(dx, dy) ==
    LET m == Max(Abs(dx), Abs(dy))
    IN  IF m < 30 THEN 1000 ELSE IF m < 300 THEN 100 ELSE IF m < 3000 THEN 10 ELSE 1

\* Vec3::normalize: v * (1 / |v|); the zero vector gives NaN in every component
Normalize(dx, dy) ==
    IF dx = 0 /\ dy = 0 THEN NaNVec
    ELSE LET k == NormScale(dx, dy)
             l == RSqrt(Len2(dx * k, dy * k))
         IN  Vec(Rnd(dx * k * ONE, l), Rnd(dy * k * ONE, l))

\* Vec3::clamp_length_max(1.0) of a vector given in thousandths
ClampLengthMax(mx, my) ==
    IF Len2(mx, my) > ONE * ONE THEN Normalize(mx, my) ELSE Vec(mx, my)

(* ------------------------------ the state ------------------------------ *)

VARIABLES
    state,           \* State<AppState>
    next_state,      \* NextState<AppState>: "Unchanged" or the pending state
    paused,          \* Time<Virtual>: the paused flag
    rdelta,          \* Time<Real>: delta of this frame, ms
    vdelta,          \* Time<Virtual>: delta of this frame, ms
    overstep,        \* Time<Fixed>: virtual time accumulated and not yet expended, ms
    phase,           \* the schedule of the Main schedule that runs now
    todo,            \* the systems of that schedule that have not run yet
    last,            \* the system of that schedule that ran last, "none" at its start
    players,         \* the entities with Player: <<[pos, bullet_timer]>>
    aims,            \* the entities with PlayerAim: <<pos>>
    bullets,         \* the entities with Bullet, in spawn order: <<[pos, vel]>>
    score,           \* Score.value, ms
    screenshake,     \* ScreenshakeIntensity.value, thousandths
    display,         \* DisplayProperties: [w, h] in pixels
    primary_device,  \* PrimaryControlDevice.value
    cursor_visible,  \* CursorOptions.visible
    camera,          \* whether app_init has run (run_once) and the Camera2d exists
    app_exit,        \* whether AppExit::Success has been written
    bounce_particles, \* the entities with BounceParticle, in spawn order:
                     \* <<[origin, lifetime, sample]>>, origin the translation at
                     \* spawn, sample the place in the stream of the velocity sampled
    commands,        \* Commands of the FixedUpdate schedule not applied yet: the
                     \* BounceParticle entities to spawn when the schedule has run
    score_text,      \* the Text of the entities with ScoreDisplay, each a sequence
                     \* of characters
    buttons,         \* the entities with Button, children of the ButtonsHolder in child
                     \* order: <<[action, interaction, selected]>>, selected for
                     \* SelectedOption
    ui_commands,     \* Commands of the button systems of Update not applied yet
    randomness,      \* RandomSource: how many samples have been drawn from the
                     \* stream since it was seeded
    spawners,        \* ParticleSpec: TrailParticleSpawner.timer of the bullets, in
                     \* spawn order: the time elapsed of the period, ms
    trail_particles, \* the entities with TrailParticle, in spawn order:
                     \* <<[entity, origin, lifetime]>>
    trail_commands,  \* Commands of spawn_bullet_trail not applied yet: the
                     \* TrailParticle entities to spawn when Update has run
    next_entity,     \* the Entity the next TrailParticle spawned gets
    flick_audio,     \* Commands of handle_bullet_collision not applied yet: how many
                     \* AudioPlayer entities of "Ball_Flick.wav" they spawn
    input            \* ControlSpec: the ButtonInput<KeyCode>, the Gamepad axes and the
                     \* MouseMotion messages of the fixed step:
                     \* [keys, left, right, motion]

vars == <<state, next_state, paused, rdelta, vdelta, overstep, phase, todo, last, players,
          aims, bullets, score, screenshake, display, primary_device, cursor_visible, camera,
          app_exit, bounce_particles, commands, score_text,
          buttons, ui_commands, randomness, spawners, trail_particles, trail_commands,
          next_entity, flick_audio, input>>

(* -------------------------- DisplayProperties -------------------------- *)

\* the DisplayProperties inserted by main(): 640 x 480
DefaultDisplay == [w |-> 640, h |-> 480]

\* the physical window sizes a WindowResized message may report
WindowSizes == {[w |-> 640, h |-> 480]}

half_w(d) == (d.w * PX) \div 2

half_h(d) == (d.h * PX) \div 2

\* shorter_dimension, in pixels
shorter_dimension(d) == IF d.w < d.h THEN d.w ELSE d.h

\* PLAYER_SIZE * shorter_dimension: the radius of the player and of a bullet
Radius(d) == shorter_dimension(d)

(* ------------------------------- clocks -------------------------------- *)

\* Time<Fixed>: the period of the FixedUpdate schedule as modelled, ms
Timestep == 250

\* the frame times the model draws from, ms (Time<Virtual> caps a delta at 250 ms)
RealDeltas == {250}

(* ------------------------------- inputs -------------------------------- *)

\* ButtonInput<KeyCode>.pressed for the movement keys, as read by move_player
KeyInputs ==
    { [up |-> FALSE, down |-> FALSE, left |-> FALSE, right |-> FALSE],
      [up |-> FALSE, down |-> FALSE, left |-> FALSE, right |-> TRUE] }

\* the connected gamepads' left sticks (x, y in thousandths): one gamepad, at rest
LeftSticks == { << <<0, 0>> >> }

\* the connected gamepads' right sticks: one gamepad, at rest
RightSticks == { << <<0, 0>> >> }

\* the sum of the MouseMotion deltas one reader sees, in length units
MouseMotions == { <<0, 0>>, <<40000, 0>> }

\* no key is held, the sticks of the one gamepad are at rest, the mouse is still
NoInput ==
    [keys |-> [up |-> FALSE, down |-> FALSE, left |-> FALSE, right |-> FALSE],
     left |-> << <<0, 0>> >>, right |-> << <<0, 0>> >>, motion |-> <<0, 0>>]

(* ------------------------------ schedules ------------------------------ *)

AppStates == {"Uninitialized", "Menu", "InGame", "Paused", "GameOver"}

\* Single<..., With<Player>> and Single<..., With<PlayerAim>>: the system is
\* skipped unless exactly one such entity exists
HasPlayer == Len(players) = 1

HasAim == Len(aims) = 1

\* the systems of FixedUpdate that run in a fixed step started now
FixedUpdateSystems ==
    {"move_bouncers", "handle_bounce_particles"}
    \cup (IF HasPlayer THEN {"move_player", "clamp_player", "handle_bullet_collision"} ELSE {})
    \cup (IF HasAim THEN {"clamp_player_aim"} ELSE {})
    \cup (IF HasAim /\ HasPlayer THEN {"move_player_aim"} ELSE {})

\* the systems of Update that run in a frame whose Update starts now
UpdateSystems ==
    {"resize_screen_bounds", "handle_game_pausing"}
    \cup (IF state \in {"Menu", "Paused"} THEN {"menu_action"} ELSE {})
    \cup (IF state = "InGame" THEN {"handle_score"} ELSE {})
    \cup (IF state = "InGame" /\ HasPlayer /\ HasAim THEN {"spawn_bullet"} ELSE {})
    \cup (IF state = "GameOver" THEN {"handle_game_over_continue"} ELSE {})
    \cup (IF camera THEN {"handle_screenshake"} ELSE {})

\* main(): clamp_player.after(move_player), clamp_player_aim.after(move_player_aim)
After(sys) ==
    CASE sys = "clamp_player" -> {"move_player"}
      [] sys = "clamp_player_aim" -> {"move_player_aim"}
      [] OTHER -> {}

\* the systems of FixedUpdate and Update in the order main() registers them
Registered ==
    <<"move_player", "clamp_player", "move_player_aim", "clamp_player_aim", "move_bouncers",
      "handle_bullet_collision", "handle_bounce_particles", "button_react_to_mouse_system",
      "button_react_to_keyboard_or_gamepad_system", "menu_action", "resize_screen_bounds",
      "handle_game_pausing", "spawn_bullet", "handle_score", "handle_game_over_continue",
      "spawn_bullet_trail", "handle_trail_particles", "handle_screenshake">>

Idx(sys) == CHOOSE i \in 1..Len(Registered) : Registered[i] = sys

\* the parts of the state a system's parameters let it write
Writes(sys) ==
    CASE sys = "move_player" -> {"players", "primary_device"}
      [] sys = "clamp_player" -> {"players"}
      [] sys = "move_player_aim" -> {"aims"}
      [] sys = "clamp_player_aim" -> {"aims"}
      [] sys = "move_bouncers" -> {"bullets"}
      [] sys = "handle_bullet_collision" ->
             {"bullets", "next_state", "paused", "screenshake", "commands", "randomness",
              "flick_audio"}
      [] sys = "handle_bounce_particles" -> {"bounce_particles"}
      [] sys = "button_react_to_mouse_system" -> {"ui_commands"}
      [] sys = "button_react_to_keyboard_or_gamepad_system" ->
             {"primary_device", "ui_commands"}
      [] sys = "menu_action" -> {"next_state", "paused", "app_exit"}
      [] sys = "resize_screen_bounds" -> {"display"}
      [] sys = "handle_game_pausing" -> {"primary_device", "paused", "next_state"}
      [] sys = "spawn_bullet" -> {"players", "bullets", "screenshake"}
      [] sys = "handle_score" -> {"score"}
      [] sys = "handle_game_over_continue" -> {"primary_device", "next_state", "paused"}
      [] sys = "spawn_bullet_trail" -> {"spawners", "trail_commands", "next_entity"}
      [] sys = "handle_trail_particles" -> {"trail_particles"}
      [] sys = "handle_screenshake" -> {"screenshake"}
      [] OTHER -> {}

\* the parts of the state a system's parameters let it read only
Reads(sys) ==
    CASE sys \in {"move_player", "clamp_player", "clamp_player_aim", "move_bouncers",
                  "handle_bounce_particles"} ->
             {"display"}
      [] sys = "move_player_aim" -> {"players", "display"}
      [] sys = "handle_bullet_collision" -> {"players", "display"}
      [] sys = "spawn_bullet" -> {"aims", "score", "display"}
      [] sys = "spawn_bullet_trail" -> {"bullets"}
      [] sys = "button_react_to_mouse_system" -> {"primary_device", "buttons"}
      [] sys = "button_react_to_keyboard_or_gamepad_system" -> {"buttons"}
      [] OTHER -> {}

\* the two systems access some part of the state that one of them writes
Conflict(a, b) ==
    \/ Writes(a) \cap (Reads(b) \cup Writes(b)) # {}
    \/ Writes(b) \cap (Reads(a) \cup Writes(a)) # {}

\* system sys of schedule sched may run now
Ready(sched, sys) ==
    /\ phase = sched
    /\ sys \in todo
    /\ After(sys) \cap todo = {}
    /\ IF last = "none" THEN TRUE
       ELSE IF Conflict(last, sys) THEN TRUE ELSE Idx(last) < Idx(sys)

\* the schedule position after system sys of schedule sched has run
Ran(sched, sys, then) ==
    /\ todo' = todo \ {sys}
    /\ phase' = IF todo \ {sys} = {} THEN then ELSE sched
    /\ last' = IF todo \ {sys} = {} THEN "none" ELSE sys

(* ------------------------------- startup ------------------------------- *)

Init ==
    /\ state = "Uninitialized"
    /\ next_state = "Unchanged"
    /\ paused = FALSE
    /\ rdelta = 0
    /\ vdelta = 0
    /\ overstep = 0
    /\ phase = "First"
    /\ todo = {}
    /\ last = "none"
    /\ players = <<>>
    /\ aims = <<>>
    /\ bullets = <<>>
    /\ score = 0
    /\ screenshake = 0
    /\ display = DefaultDisplay
    /\ primary_device = "Keyboard"
    /\ cursor_visible = TRUE
    /\ camera = FALSE
    /\ app_exit = FALSE
    /\ bounce_particles = <<>>
    /\ commands = <<>>
    /\ score_text = <<>>
    /\ buttons = <<>>
    /\ ui_commands = <<>>
    /\ randomness = 0
    /\ spawners = <<>>
    /\ trail_particles = <<>>
    /\ trail_commands = <<>>
    /\ next_entity = 0
    /\ input = NoInput
    /\ flick_audio = 0

(* --------------------------- First, PreUpdate -------------------------- *)

\* VirtualDelta of a clock that pausing does not stop
VirtualDelta_Running(d) == d

\* Time<Virtual> of a frame whose real delta is d: a paused clock does not advance
VirtualDelta(d) == IF paused THEN 0 ELSE d

\* First: the clocks advance; Time<Fixed> accumulates the virtual delta
time_system ==
    /\ phase = "First"
    /\ Len(bullets) < MaxBullets \/ "GameOver" \in {state, next_state}
    /\ randomness < MaxDraws \/ ~(state = "Menu" /\ next_state = "InGame")
    /\ \E d \in RealDeltas :
          /\ rdelta' = d
          /\ vdelta' = VirtualDelta(d)
          /\ overstep' = overstep + VirtualDelta(d)
    /\ phase' = "PreUpdate"
    /\ UNCHANGED <<state, next_state, paused, todo, last, players, aims, bullets, score,
                   screenshake, display, primary_device, cursor_visible, camera,
                   app_exit>>
    /\ UNCHANGED <<bounce_particles, commands, score_text>>
    /\ UNCHANGED <<buttons, ui_commands>>
    /\ UNCHANGED randomness
    /\ UNCHANGED <<spawners, trail_particles, trail_commands, next_entity>>
    /\ UNCHANGED input
    /\ UNCHANGED flick_audio

\* ev.delta.x + ev.delta.y > MOUSE_DEADZONE * time.delta_secs(), delta in length units
MouseMoved(m) == (m[1] + m[2]) * ONE > (MOUSE_DEADZONE * vdelta * PX) \div 1000

check_for_mouse_input ==
    /\ phase = "PreUpdate"
    /\ \E m \in MouseMotions :
          primary_device' = IF MouseMoved(m) THEN "Mouse" ELSE primary_device
    /\ phase' = "StateTransition"
    /\ UNCHANGED <<state, next_state, paused, rdelta, vdelta, overstep, todo, last, players,
                   aims, bullets, score, screenshake, display, cursor_visible,
                   camera, app_exit>>
    /\ UNCHANGED <<bounce_particles, commands, score_text>>
    /\ UNCHANGED <<buttons, ui_commands>>
    /\ UNCHANGED randomness
    /\ UNCHANGED <<spawners, trail_particles, trail_commands, next_entity>>
    /\ UNCHANGED input
    /\ UNCHANGED flick_audio

(* --------------------------- StateTransition --------------------------- *)

\* faulty spawn_player: the Player starts with no cooldown
spawn_player_NoCooldown(ps) == Append(ps, [pos |-> Vec(0, 0), bullet_timer |-> 0])

\* spawn_player: one more Player, at the origin, bullet_timer 2.0
spawn_player(ps) == Append(ps, [pos |-> Vec(0, 0), bullet_timer |-> 2000])

\* spawn_player_aim: one more PlayerAim, at (PLAYER_SIZE, PLAYER_SIZE)
spawn_player_aim(as) == Append(as, Vec(1, 1))

\* faulty despawn_player: the Player entities are kept
despawn_player_Kept(ps) == ps

\* despawn_player: every entity with Player is despawned
despawn_player(ps) == <<>>

\* despawn_player_aim: every entity with PlayerAim is despawned
despawn_player_aim(as) == <<>>

\* despawn_bullets that leaves the bullets alive
despawn_bullets_Kept(bs) == bs

\* despawn_bullets: every entity with Bullet is despawned
despawn_bullets(bs) == <<>>

\* faulty reset_score: the value is kept
reset_score_Kept(sc) == sc

\* reset_score
reset_score(sc) == 0

\* the decimal digits as characters
Digits == <<"0", "1", "2", "3", "4", "5", "6", "7", "8", "9">>

\* u32::to_string, as a sequence of characters
RECURSIVE to_string(_)
to_string(n) ==
    IF n < 10 THEN <<Digits[n + 1]>> ELSE to_string(n \div 10) \o <<Digits[(n % 10) + 1]>>

\* a field of convert_time_to_text: "0" is pushed before a number below 10
Field(n) == (IF n < 10 THEN <<"0">> ELSE <<>>) \o to_string(n)

\* convert_time_to_text with the whole seconds in the seconds field
convert_time_to_text_WholeSeconds(time) ==
    LET ms == IF time < 0 THEN 0 ELSE (time * 100) \div 1000
        s == (ms - (ms % 100)) \div 100
        m == (s - (s % 60)) \div 60
    IN  Field(m) \o <<":">> \o Field(s) \o <<":">> \o Field(ms % 100)

\* convert_time_to_text of a time in ms; ms, s and m are the locals of the code:
\* ms = (time * 100.) as u32 is the count of hundredths (the cast truncates and
\* gives 0 for a negative time)
convert_time_to_text(time) ==
    LET ms == IF time < 0 THEN 0 ELSE (time * 100) \div 1000
        s == (ms - (ms % 100)) \div 100
        m == (s - (s % 60)) \div 60
    IN  Field(m) \o <<":">> \o Field(s % 60) \o <<":">> \o Field(ms % 100)

\* gameplay_ui_setup (OnExit(Menu)): the ScoreDisplay spawned with Text "00:00:00"
gameplay_ui_setup(ts) == Append(ts, <<"0", "0", ":", "0", "0", ":", "0", "0">>)

\* DespawnOnEnter(AppState::Menu) of the gameplay UI
despawn_gameplay_ui(ts) == <<>>

\* a Button spawned with the MenuButtonAction a: its Interaction is None
Button(a, sel) == [action |-> a, interaction |-> "None", selected |-> sel]

\* main_menu_setup (OnEnter(Menu)): Play, with SelectedOption, and Quit
main_menu_setup == <<Button("Play", TRUE), Button("Quit", FALSE)>>

\* pause_menu_setup (OnEnter(Paused)): Resume, with SelectedOption, To Menu and Quit
pause_menu_setup == <<Button("Resume", TRUE), Button("ToMenu", FALSE), Button("Quit", FALSE)>>

\* the buttons after the transition to s: those of a menu are despawned when its
\* state is left (DespawnOnExit), those of s are set up when s is entered
MenuSetup(s) ==
    IF s = "Menu" THEN main_menu_setup
    ELSE IF s = "Paused" THEN pause_menu_setup ELSE <<>>

\* CursorAfter without make_mouse_visible
CursorAfter_HideOnly(from, to) == IF to = "InGame" THEN FALSE ELSE cursor_visible

\* make_mouse_invisible (OnEnter(InGame)), make_mouse_visible (OnExit(InGame))
CursorAfter(from, to) ==
    IF to = "InGame" THEN FALSE ELSE IF from = "InGame" THEN TRUE ELSE cursor_visible

\* StateTransition: a pending NextState is applied: OnExit(state), then OnEnter(next)
apply_state_transition ==
    /\ phase = "StateTransition"
    /\ phase' = "RunFixedMainLoop"
    /\ next_state' = "Unchanged"
    /\ IF next_state \in {"Unchanged", state}
       THEN UNCHANGED <<state, players, aims, bullets, score, cursor_visible, score_text,
                        buttons>>
       ELSE LET exitMenu == state = "Menu"
                enterMenu == next_state = "Menu"
                ps == IF exitMenu THEN spawn_player(players) ELSE players
                as == IF exitMenu THEN spawn_player_aim(aims) ELSE aims
                ts == IF exitMenu THEN gameplay_ui_setup(score_text) ELSE score_text
            IN  /\ state' = next_state
                /\ players' = IF enterMenu THEN despawn_player(ps) ELSE ps
                /\ aims' = IF enterMenu THEN despawn_player_aim(as) ELSE as
                /\ bullets' = IF enterMenu THEN despawn_bullets(bullets) ELSE bullets
                /\ score' = IF enterMenu THEN reset_score(score) ELSE score
                /\ cursor_visible' = CursorAfter(state, next_state)
                /\ score_text' = IF enterMenu THEN despawn_gameplay_ui(ts) ELSE ts
                /\ buttons' = MenuSetup(next_state)
    /\ UNCHANGED <<paused, rdelta, vdelta, overstep, todo, last, screenshake, display,
                   primary_device, camera, app_exit>>
    /\ UNCHANGED <<bounce_particles, commands>>
    /\ UNCHANGED ui_commands
    /\ UNCHANGED randomness
    /\ UNCHANGED <<spawners, trail_particles, trail_commands, next_entity>>
    /\ UNCHANGED input
    /\ UNCHANGED flick_audio

(* --------------------------- RunFixedMainLoop -------------------------- *)

\* Time<Fixed>::expend: one fixed step per whole Timestep accumulated.  The
\* Commands queued by the systems of a fixed step are applied when its schedule
\* has run, before the next step or Update starts.
RunFixedMainLoop(fixed, update) ==
    /\ phase = "RunFixedMainLoop"
    /\ last' = "none"
    /\ bounce_particles' = bounce_particles \o commands
    /\ commands' = <<>>
    /\ flick_audio' = 0
    /\ UNCHANGED score_text
    /\ IF overstep >= Timestep
       THEN /\ overstep' = overstep - Timestep
            /\ phase' = "FixedUpdate"
            /\ todo' = fixed
       ELSE /\ overstep' = overstep
            /\ phase' = "Update"
            /\ todo' = update
    /\ UNCHANGED <<state, next_state, paused, rdelta, vdelta, players, aims, bullets,
                   score, screenshake, display, primary_device, cursor_visible,
                   camera, app_exit>>
    /\ UNCHANGED <<buttons, ui_commands>>
    /\ UNCHANGED randomness
    /\ UNCHANGED <<spawners, trail_particles, trail_commands, next_entity>>
    /\ UNCHANGED input

run_fixed_main_loop == RunFixedMainLoop(FixedUpdateSystems, UpdateSystems)

(* ----------------------------- FixedUpdate ----------------------------- *)

\* speed * shorter_dimension * fixed_time.delta_secs(): the length travelled
\* in one fixed step at a normalized speed (thousandths of the shorter dimension per second)
Travel(speed, d) == Rnd(Timestep * speed * shorter_dimension(d), (1000 * ONE) \div PX)

\* v * len for a vector v given in thousandths
Scaled(v, len) == IF v.nan THEN NaNVec ELSE Vec(Rnd(v.x * len, ONE), Rnd(v.y * len, ONE))

\* a + b
Plus(a, b) == IF a.nan \/ b.nan THEN NaNVec ELSE Vec(a.x + b.x, a.y + b.y)

\* move_player: the movement vector the keys k and the left sticks ls add up to
RECURSIVE StickMovement(_, _)
StickMovement(m, ls) ==
    IF ls = <<>> THEN m
    ELSE LET lx == Head(ls)[1]
             ly == Head(ls)[2]
         IN  StickMovement(
                 Vec(IF Abs(lx) > GAMEPAD_STICK_DEADZONE THEN m.x + lx ELSE m.x,
                     IF Abs(ly) > GAMEPAD_STICK_DEADZONE THEN m.y + ly ELSE m.y),
                 Tail(ls))

KeyMovement(k) ==
    Vec((IF k.right THEN ONE ELSE 0) - (IF k.left THEN ONE ELSE 0),
        (IF k.up THEN ONE ELSE 0) - (IF k.down THEN ONE ELSE 0))

\* move_player: PrimaryControlDevice after the keys k and the left sticks ls
MoveDevice(k, ls) ==
    IF \E i \in 1..Len(ls) : Abs(ls[i][1]) > GAMEPAD_STICK_DEADZONE
                             \/ Abs(ls[i][2]) > GAMEPAD_STICK_DEADZONE
    THEN "Gamepad"
    ELSE IF k.up \/ k.down \/ k.left \/ k.right THEN "Keyboard" ELSE primary_device

MovePlayer(keys, sticks) ==
    /\ Ready("FixedUpdate", "move_player")
    /\ \E k \in keys, ls \in sticks :
          LET m == StickMovement(KeyMovement(k), ls)
              step == Scaled(ClampLengthMax(m.x, m.y),
                             Travel(PLAYER_MOVEMENT_SPEED_NORMALIZED, display))
          IN  /\ players' = <<[players[1] EXCEPT !.pos = Plus(@, step)]>>
              /\ primary_device' = MoveDevice(k, ls)
    /\ Ran("FixedUpdate", "move_player", "RunFixedMainLoop")
    /\ UNCHANGED <<state, next_state, paused, rdelta, vdelta, overstep, aims, bullets,
                   score, screenshake, display, cursor_visible, camera, app_exit>>
    /\ UNCHANGED <<bounce_particles, commands, score_text>>
    /\ UNCHANGED <<buttons, ui_commands>>
    /\ UNCHANGED randomness
    /\ UNCHANGED <<spawners, trail_particles, trail_commands, next_entity>>
    /\ UNCHANGED input
    /\ UNCHANGED flick_audio

move_player == MovePlayer(KeyInputs, LeftSticks)

\* faulty clamp_player: the box is not inset by the radius
ClampPlayer_NoInset(p, d) ==
    Vec(Clamp(p.x, -half_w(d), half_w(d)), Clamp(p.y, -half_h(d), half_h(d)))

\* clamp_player: the position clamped to the bounding box inset by the radius
ClampPlayer(p, d) ==
    Vec(Clamp(p.x, -half_w(d) + Radius(d), half_w(d) - Radius(d)),
        Clamp(p.y, -half_h(d) + Radius(d), half_h(d) - Radius(d)))

clamp_player ==
    /\ Ready("FixedUpdate", "clamp_player")
    /\ players' = <<[players[1] EXCEPT !.pos = ClampPlayer(@, display)]>>
    /\ Ran("FixedUpdate", "clamp_player", "RunFixedMainLoop")
    /\ UNCHANGED <<state, next_state, paused, rdelta, vdelta, overstep, aims, bullets,
                   score, screenshake, display, primary_device, cursor_visible,
                   camera, app_exit>>
    /\ UNCHANGED <<bounce_particles, commands, score_text>>
    /\ UNCHANGED <<buttons, ui_commands>>
    /\ UNCHANGED randomness
    /\ UNCHANGED <<spawners, trail_particles, trail_commands, next_entity>>
    /\ UNCHANGED input
    /\ UNCHANGED flick_audio

\* move_player_aim: the aim eased to player + stick * GAMEPAD_AIM_DISTANCE * shorter_dimension
\* by the factor min(1, 10 * delta_secs), for every right stick beyond its deadzone
RECURSIVE StickAim(_, _, _, _)
StickAim(a, p, rs, d) ==
    IF rs = <<>> THEN a
    ELSE LET sx == Head(rs)[1]
             sy == Head(rs)[2]
             reach == Rnd(GAMEPAD_AIM_DISTANCE * shorter_dimension(d) * PX, ONE)
             target == Plus(p, Scaled(Vec(sx, sy), reach))
             t == Min(ONE, 10 * Timestep)
             eased == Vec(Lerp(a.x, target.x, t), Lerp(a.y, target.y, t))
         IN  StickAim(IF Len2(sx, sy) < GAMEPAD_AIM_DEADZONE * GAMEPAD_AIM_DEADZONE
                      THEN a ELSE eased,
                      p, Tail(rs), d)

MovePlayerAim(motions, sticks) ==
    /\ Ready("FixedUpdate", "move_player_aim")
    /\ \E m \in motions, rs \in sticks :
          aims' = <<StickAim(Vec(aims[1].x + m[1], aims[1].y - m[2]),
                             players[1].pos, rs, display)>>
    /\ Ran("FixedUpdate", "move_player_aim", "RunFixedMainLoop")
    /\ UNCHANGED <<state, next_state, paused, rdelta, vdelta, overstep, players, bullets,
                   score, screenshake, display, primary_device, cursor_visible,
                   camera, app_exit>>
    /\ UNCHANGED <<bounce_particles, commands, score_text>>
    /\ UNCHANGED <<buttons, ui_commands>>
    /\ UNCHANGED randomness
    /\ UNCHANGED <<spawners, trail_particles, trail_commands, next_entity>>
    /\ UNCHANGED input
    /\ UNCHANGED flick_audio

move_player_aim == MovePlayerAim(MouseMotions, RightSticks)

\* clamp_player_aim: the aim clamped to the full bounding box
ClampAim(a, d) ==
    Vec(Clamp(a.x, -half_w(d), half_w(d)), Clamp(a.y, -half_h(d), half_h(d)))

clamp_player_aim ==
    /\ Ready("FixedUpdate", "clamp_player_aim")
    /\ aims' = <<ClampAim(aims[1], display)>>
    /\ Ran("FixedUpdate", "clamp_player_aim", "RunFixedMainLoop")
    /\ UNCHANGED <<state, next_state, paused, rdelta, vdelta, overstep, players, bullets,
                   score, screenshake, display, primary_device, cursor_visible,
                   camera, app_exit>>
    /\ UNCHANGED <<bounce_particles, commands, score_text>>
    /\ UNCHANGED <<buttons, ui_commands>>
    /\ UNCHANGED randomness
    /\ UNCHANGED <<spawners, trail_particles, trail_commands, next_entity>>
    /\ UNCHANGED input
    /\ UNCHANGED flick_audio

\* faulty move_bouncers: a reflection halves the component
BounceAxis_Damped(v, p, nan, margin) ==
    IF nan THEN v
    ELSE IF v > 0
         THEN (IF p > margin THEN -(v \div 2) ELSE v)
         ELSE (IF p < -margin THEN -(v \div 2) ELSE v)

\* move_bouncers, one axis: the velocity component v of a bullet now at coordinate p
\* (nan: the comparisons with a NaN are false), with the margin inset by the radius
BounceAxis(v, p, nan, margin) ==
    IF nan THEN v
    ELSE IF v > 0
         THEN (IF p > margin THEN -v ELSE v)
         ELSE (IF p < -margin THEN -v ELSE v)

\* move_bouncers, one bullet
MoveBouncer(b, d) ==
    LET pos == Plus(b.pos, Scaled(b.vel, Travel(BULLET_MOVEMENT_SPEED_NORMALIZED, d)))
        nan == pos.nan \/ b.vel.nan
    IN  [pos |-> pos,
         vel |-> [b.vel EXCEPT
                    !.x = BounceAxis(@, pos.x, nan, half_w(d) - Radius(d)),
                    !.y = BounceAxis(@, pos.y, nan, half_h(d) - Radius(d))]]

move_bouncers ==
    /\ Ready("FixedUpdate", "move_bouncers")
    /\ bullets' = [i \in 1..Len(bullets) |-> MoveBouncer(bullets[i], display)]
    /\ Ran("FixedUpdate", "move_bouncers", "RunFixedMainLoop")
    /\ UNCHANGED <<state, next_state, paused, rdelta, vdelta, overstep, players, aims,
                   score, screenshake, display, primary_device, cursor_visible,
                   camera, app_exit>>
    /\ UNCHANGED <<bounce_particles, commands, score_text>>
    /\ UNCHANGED <<buttons, ui_commands>>
    /\ UNCHANGED randomness
    /\ UNCHANGED <<spawners, trail_particles, trail_commands, next_entity>>
    /\ UNCHANGED input
    /\ UNCHANGED flick_audio

\* PLAYER_SIZE * 2.0 * shorter_dimension
collision_distance(d) == 2 * Radius(d)

\* iter_combinations_mut: the pairs <<i, j>>, i < j, of n bullets in the order fetched
Combinations(n) ==
    LET RECURSIVE From(_, _)
        From(i, j) ==
            IF i >= n THEN <<>>
            ELSE IF j > n THEN From(i + 1, i + 2)
            ELSE <<(<<i, j>>)>> \o From(i, j + 1)
    IN  From(1, 2)

\* the player-kill test of handle_bullet_collision for the bullet at position b
KillHit(b, p, d) == DistLess(b, p, collision_distance(d))

\* how many of the two kill tests of the pair c hit
PairKills(bs, c, p, d) ==
    (IF KillHit(bs[c[1]].pos, p, d) THEN 1 ELSE 0)
    + (IF KillHit(bs[c[2]].pos, p, d) THEN 1 ELSE 0)

\* PairBounces that leaves alone a pair whose bullets do not approach each other
PairBounces_Approaching(bs, c, d) ==
    LET a == bs[c[1]]
        b == bs[c[2]]
    IN  /\ ~DistGreater(a.pos, b.pos, collision_distance(d))
        /\ ~DistLess(a.pos, b.pos, PX)
        /\ (a.pos.x - b.pos.x) * (a.vel.x - b.vel.x)
              + (a.pos.y - b.pos.y) * (a.vel.y - b.vel.y) < 0

\* the pair c is resolved: neither `continue` of the loop body is taken
PairBounces(bs, c, d) ==
    /\ ~DistGreater(bs[c[1]].pos, bs[c[2]].pos, collision_distance(d))
    /\ ~DistLess(bs[c[1]].pos, bs[c[2]].pos, PX)

\* Bounce with both bullets sent the same way
Bounce_SameWay(bs, c) ==
    LET a == bs[c[1]].pos
        b == bs[c[2]].pos
        dir == IF a.nan \/ b.nan THEN NaNVec ELSE Normalize(a.x - b.x, a.y - b.y)
    IN  [bs EXCEPT ![c[1]].vel = dir, ![c[2]].vel = dir]

\* the velocities after the pair c has been resolved
Bounce(bs, c) ==
    LET a == bs[c[1]].pos
        b == bs[c[2]].pos
        dir == IF a.nan \/ b.nan THEN NaNVec ELSE Normalize(a.x - b.x, a.y - b.y)
        neg == IF dir.nan THEN NaNVec ELSE Vec(-dir.x, -dir.y)
    IN  [bs EXCEPT ![c[1]].vel = dir, ![c[2]].vel = neg]

\* (a + b) / 2.0 of one coordinate, to the unit of length
Half(v) == Rnd(v, 2)

\* average_position of the pair c
AveragePosition(bs, c) ==
    LET a == bs[c[1]].pos
        b == bs[c[2]].pos
    IN  IF a.nan \/ b.nan THEN NaNVec ELSE Vec(Half(a.x + b.x), Half(a.y + b.y))

\* Particles with every velocity of a burst taken from one sample
Particles_OneSample(n, p, k) ==
    [i \in 1..n |-> [origin |-> p, lifetime |-> COLLISION_PARTICLE_LIFETIME,
                     sample |-> k + 1]]

\* for _ in 0..COLLISION_PARTICLE_COUNT: n BounceParticle entities at p, the
\* velocity of each from the next sample of the stream, of which k were drawn before
RECURSIVE Particles(_, _, _)
Particles(n, p, k) ==
    IF n <= 0 THEN <<>>
    ELSE <<[origin |-> p, lifetime |-> COLLISION_PARTICLE_LIFETIME, sample |-> k + 1]>>
         \o Particles(n - 1, p, k + 1)

\* Burst with one particle less
Burst_OneShort(bs, c, k) ==
    Particles(COLLISION_PARTICLE_COUNT - 1, AveragePosition(bs, c), k)

\* the burst spawned when the pair c is resolved, k samples drawn before
Burst(bs, c, k) == Particles(COLLISION_PARTICLE_COUNT, AveragePosition(bs, c), k)

\* the loop of handle_bullet_collision over the pairs cs, from the accumulated
\* r = [bullets, kills, bounces, spawned, randomness]
RECURSIVE CollisionLoop(_, _, _, _)
CollisionLoop(r, cs, p, d) ==
    IF cs = <<>> THEN r
    ELSE LET c == Head(cs)
             hit == PairBounces(r.bullets, c, d)
         IN  CollisionLoop(
                 [bullets |-> IF hit THEN Bounce(r.bullets, c) ELSE r.bullets,
                  kills |-> r.kills + PairKills(r.bullets, c, p, d),
                  bounces |-> r.bounces + (IF hit THEN 1 ELSE 0),
                  spawned |-> IF hit THEN r.spawned \o Burst(r.bullets, c, r.randomness)
                              ELSE r.spawned,
                  randomness |-> IF hit THEN r.randomness + COLLISION_PARTICLE_COUNT
                                 ELSE r.randomness],
                 Tail(cs), p, d)

\* handle_bullet_collision.  Of the audio requests it emits the state keeps those
\* of a bounce, the rumble requests are not part of it; the velocity of a
\* BounceParticle is kept as the sample of the stream it was made of.
handle_bullet_collision ==
    /\ Ready("FixedUpdate", "handle_bullet_collision")
    /\ LET r == CollisionLoop([bullets |-> bullets, kills |-> 0, bounces |-> 0,
                               spawned |-> <<>>, randomness |-> randomness],
                              Combinations(Len(bullets)), players[1].pos, display)
       IN  /\ bullets' = r.bullets
           /\ paused' = IF r.kills > 0 THEN TRUE ELSE paused
           /\ next_state' = IF r.kills > 0 THEN "GameOver" ELSE next_state
           /\ screenshake' = screenshake + r.kills * SCREENSHAKE_ON_DEATH
                                         + r.bounces * SCREENSHAKE_ON_BOUNCE
           /\ commands' = commands \o r.spawned
           /\ flick_audio' = flick_audio + r.bounces
           /\ randomness' = r.randomness
    /\ UNCHANGED <<bounce_particles, score_text>>
    /\ Ran("FixedUpdate", "handle_bullet_collision", "RunFixedMainLoop")
    /\ UNCHANGED <<state, rdelta, vdelta, overstep, players, aims, score, display,
                   primary_device, cursor_visible, camera, app_exit>>
    /\ UNCHANGED <<buttons, ui_commands>>
    /\ UNCHANGED <<spawners, trail_particles, trail_commands, next_entity>>
    /\ UNCHANGED input

\* handle_bounce_particles: every particle ages by the fixed step and is
\* despawned once its lifetime is negative
Aged(ps) ==
    LET RECURSIVE Go(_)
        Go(q) ==
            IF q = <<>> THEN <<>>
            ELSE LET lifetime == Head(q).lifetime - Timestep
                 IN  (IF lifetime < 0 THEN <<>>
                      ELSE <<[Head(q) EXCEPT !.lifetime = lifetime]>>) \o Go(Tail(q))
    IN  Go(ps)

handle_bounce_particles ==
    /\ Ready("FixedUpdate", "handle_bounce_particles")
    /\ bounce_particles' = Aged(bounce_particles)
    /\ Ran("FixedUpdate", "handle_bounce_particles", "RunFixedMainLoop")
    /\ UNCHANGED <<state, next_state, paused, rdelta, vdelta, overstep, players, aims,
                   bullets, score, screenshake, display, primary_device, cursor_visible,
                   camera, app_exit, commands, score_text>>
    /\ UNCHANGED <<buttons, ui_commands>>
    /\ UNCHANGED randomness
    /\ UNCHANGED <<spawners, trail_particles, trail_commands, next_entity>>
    /\ UNCHANGED input
    /\ UNCHANGED flick_audio

(* ------------------------------- Update -------------------------------- *)

\* resize_screen_bounds: every WindowResized message sets the DisplayProperties
\* from the window's physical size
resize_screen_bounds ==
    /\ Ready("Update", "resize_screen_bounds")
    /\ \E size \in {display} \cup WindowSizes : display' = size
    /\ Ran("Update", "resize_screen_bounds", "PostUpdate")
    /\ UNCHANGED <<state, next_state, paused, rdelta, vdelta, overstep, players, aims,
                   bullets, score, screenshake, primary_device, cursor_visible,
                   camera, app_exit>>
    /\ UNCHANGED <<bounce_particles, commands, score_text>>
    /\ UNCHANGED <<buttons, ui_commands>>
    /\ UNCHANGED randomness
    /\ UNCHANGED <<spawners, trail_particles, trail_commands, next_entity>>
    /\ UNCHANGED input
    /\ UNCHANGED flick_audio

\* faulty handle_game_pausing: the pause input is taken in every state
PauseTarget_Unguarded(s) == IF s = "Paused" THEN "InGame" ELSE "Paused"

\* handle_game_pausing: the state asked for when the pause input is taken in state s
PauseTarget(s) ==
    IF s = "InGame" THEN "Paused" ELSE IF s = "Paused" THEN "InGame" ELSE "Unchanged"

\* faulty handle_game_pausing: time.pause() on both branches
PausedAfterToggle_Always(s) == TRUE

\* handle_game_pausing: time.pause() in InGame, time.unpause() in Paused
PausedAfterToggle(s) == s = "InGame"

\* handle_game_pausing: key is just_pressed(Escape) || just_pressed(Backspace),
\* pad is a just-pressed Select or Start on some gamepad
handle_game_pausing ==
    /\ Ready("Update", "handle_game_pausing")
    /\ \E key \in BOOLEAN, pad \in BOOLEAN :
          /\ primary_device' = IF key THEN "Keyboard"
                               ELSE IF pad THEN "Gamepad" ELSE primary_device
          /\ IF (key \/ pad) /\ PauseTarget(state) # "Unchanged"
             THEN /\ paused' = PausedAfterToggle(state)
                  /\ next_state' = PauseTarget(state)
             ELSE UNCHANGED <<paused, next_state>>
    /\ Ran("Update", "handle_game_pausing", "PostUpdate")
    /\ UNCHANGED <<state, rdelta, vdelta, overstep, players, aims, bullets, score,
                   screenshake, display, cursor_visible, camera, app_exit>>
    /\ UNCHANGED <<bounce_particles, commands, score_text>>
    /\ UNCHANGED <<buttons, ui_commands>>
    /\ UNCHANGED randomness
    /\ UNCHANGED <<spawners, trail_particles, trail_commands, next_entity>>
    /\ UNCHANGED input
    /\ UNCHANGED flick_audio

\* SpawnCooldown without the .min(1.0)
SpawnCooldown_Unclamped(sc) == Lerp(50, 2000, Rnd(sc * sc, 100000))

\* spawn_bullet: the cooldown added after a spawn at score sc:
\* 0.05.lerp(2.0, (score / 10.0).squared().min(1.0))
SpawnCooldown(sc) ==
    Lerp(50, 2000, IF sc >= 10000 THEN ONE ELSE Min(ONE, Rnd(sc * sc, 100000)))

\* spawn_bullet: the bullet shot by the player at p aiming at a
NewBullet(p, a, d) ==
    LET initial_velocity == Normalize(a.x - p.x, a.y - p.y)
    IN  [pos |-> Plus(p, Scaled(initial_velocity, 3 * Radius(d))),
         vel |-> initial_velocity]

spawn_bullet ==
    /\ Ready("Update", "spawn_bullet")
    /\ LET timer == players[1].bullet_timer - vdelta
       IN  IF timer > 0
           THEN /\ players' = <<[players[1] EXCEPT !.bullet_timer = timer]>>
                /\ UNCHANGED <<bullets, screenshake>>
           ELSE /\ bullets' = Append(bullets, NewBullet(players[1].pos, aims[1], display))
                /\ screenshake' = screenshake + SCREENSHAKE_ON_SHOOT
                /\ players' = <<[players[1] EXCEPT
                                   !.bullet_timer = timer + SpawnCooldown(score)]>>
    /\ Ran("Update", "spawn_bullet", "PostUpdate")
    /\ UNCHANGED <<state, next_state, paused, rdelta, vdelta, overstep, aims, score,
                   display, primary_device, cursor_visible, camera, app_exit>>
    /\ UNCHANGED <<bounce_particles, commands, score_text>>
    /\ UNCHANGED <<buttons, ui_commands>>
    /\ UNCHANGED randomness
    /\ UNCHANGED <<spawners, trail_particles, trail_commands, next_entity>>
    /\ UNCHANGED input
    /\ UNCHANGED flick_audio

\* handle_score: score.value += time.delta_secs()
ScoreAfter(sc, dt) == sc + dt

\* handle_score: the new score is added up and written to every ScoreDisplay
handle_score ==
    /\ Ready("Update", "handle_score")
    /\ score' = ScoreAfter(score, vdelta)
    /\ score_text' = [i \in 1..Len(score_text) |->
                         convert_time_to_text(ScoreAfter(score, vdelta))]
    /\ Ran("Update", "handle_score", "PostUpdate")
    /\ UNCHANGED <<state, next_state, paused, rdelta, vdelta, overstep, players, aims,
                   bullets, screenshake, display, primary_device, cursor_visible,
                   camera, app_exit>>
    /\ UNCHANGED <<bounce_particles, commands>>
    /\ UNCHANGED <<buttons, ui_commands>>
    /\ UNCHANGED randomness
    /\ UNCHANGED <<spawners, trail_particles, trail_commands, next_entity>>
    /\ UNCHANGED input
    /\ UNCHANGED flick_audio

\* handle_game_over_continue: the pause flag after the continue input is taken
ContinuePaused(p) == FALSE

\* handle_game_over_continue: key, pad and mouse are the just-pressed tests of the
\* keyboard, the gamepads and the mouse buttons
handle_game_over_continue ==
    /\ Ready("Update", "handle_game_over_continue")
    /\ \E key \in BOOLEAN, pad \in BOOLEAN, mouse \in BOOLEAN :
          /\ primary_device' = IF mouse THEN "Mouse"
                               ELSE IF key THEN "Keyboard"
                               ELSE IF pad THEN "Gamepad" ELSE primary_device
          /\ IF key \/ pad \/ mouse
             THEN /\ next_state' = "Menu"
                  /\ paused' = ContinuePaused(paused)
             ELSE UNCHANGED <<next_state, paused>>
    /\ Ran("Update", "handle_game_over_continue", "PostUpdate")
    /\ UNCHANGED <<state, rdelta, vdelta, overstep, players, aims, bullets, score,
                   screenshake, display, cursor_visible, camera, app_exit>>
    /\ UNCHANGED <<bounce_particles, commands, score_text>>
    /\ UNCHANGED <<buttons, ui_commands>>
    /\ UNCHANGED randomness
    /\ UNCHANGED <<spawners, trail_particles, trail_commands, next_entity>>
    /\ UNCHANGED input
    /\ UNCHANGED flick_audio

\* the MenuButtonAction buttons spawned by main_menu_setup and pause_menu_setup
MenuButtons(s) == IF s = "Menu" THEN {"Play", "Quit"} ELSE {"Resume", "ToMenu", "Quit"}

\* menu_action: the state a pressed button asks for
ButtonTarget(b) == IF b = "ToMenu" THEN "Menu" ELSE "InGame"

\* faulty menu_action: ToMenu does not unpause
ButtonUnpauses_ResumeOnly(b) == b = "Resume"

\* menu_action: the buttons whose arm calls time.unpause()
ButtonUnpauses(b) == b \in {"Resume", "ToMenu"}

\* menu_action: pressed holds the button whose Interaction changed to Pressed in
\* this frame, if any
menu_action ==
    /\ Ready("Update", "menu_action")
    /\ \E pressed \in {{}} \cup {{b} : b \in MenuButtons(state)} :
          /\ app_exit' = (app_exit \/ "Quit" \in pressed)
          /\ paused' = IF \E b \in pressed : ButtonUnpauses(b) THEN FALSE ELSE paused
          /\ IF pressed \ {"Quit"} = {}
             THEN next_state' = next_state
             ELSE \E b \in pressed \ {"Quit"} : next_state' = ButtonTarget(b)
    /\ Ran("Update", "menu_action", "PostUpdate")
    /\ UNCHANGED <<state, rdelta, vdelta, overstep, players, aims, bullets, score,
                   screenshake, display, primary_device, cursor_visible, camera>>
    /\ UNCHANGED <<bounce_particles, commands, score_text>>
    /\ UNCHANGED <<buttons, ui_commands>>
    /\ UNCHANGED randomness
    /\ UNCHANGED <<spawners, trail_particles, trail_commands, next_entity>>
    /\ UNCHANGED input
    /\ UNCHANGED flick_audio

(* ------------------------- Update: the buttons ------------------------ *)

\* how many buttons have SelectedOption
SelectedCount(bs) == Cardinality({i \in 1..Len(bs) : bs[i].selected})

\* button_react_to_mouse_system: the commands of the loop over the buttons from
\* button i on; count is selected_options.count(), which the queued commands do
\* not change
RECURSIVE MouseCommands(_, _, _)
MouseCommands(bs, i, count) ==
    IF i > Len(bs) THEN <<>>
    ELSE (IF bs[i].interaction = "None" /\ bs[i].selected /\ count > 1
          THEN <<[op |-> "remove", button |-> i]>> ELSE <<>>)
         \o (IF bs[i].interaction = "Hovered" /\ ~bs[i].selected
             THEN <<[op |-> "insert", button |-> i]>> ELSE <<>>)
         \o MouseCommands(bs, i + 1, count)

button_react_to_mouse_system ==
    /\ Ready("Update", "button_react_to_mouse_system")
    /\ ui_commands' = IF primary_device # "Mouse" THEN ui_commands
                      ELSE ui_commands \o MouseCommands(buttons, 1, SelectedCount(buttons))
    /\ Ran("Update", "button_react_to_mouse_system", "PostUpdate")
    /\ UNCHANGED <<state, next_state, paused, rdelta, vdelta, overstep, players, aims,
                   bullets, score, screenshake, display, primary_device, cursor_visible,
                   camera, app_exit, bounce_particles, commands, score_text, buttons>>
    /\ UNCHANGED randomness
    /\ UNCHANGED <<spawners, trail_particles, trail_commands, next_entity>>
    /\ UNCHANGED input
    /\ UNCHANGED flick_audio

\* the just-pressed tests of a frame: up, down and confirm of the keyboard (W, Up
\* or Z; S or Down; Enter or Space) and of the gamepad (DPadUp; DPadDown; South
\* or East)
NavInputs ==
    [key_up : BOOLEAN, key_down : BOOLEAN, key_confirm : BOOLEAN,
     pad_up : BOOLEAN, pad_down : BOOLEAN, pad_confirm : BOOLEAN]

\* movement_vector.y, in thousandths
NavMovement(n) ==
    ONE * ((IF n.key_up THEN 1 ELSE 0) - (IF n.key_down THEN 1 ELSE 0)
           + (IF n.pad_up THEN 1 ELSE 0) - (IF n.pad_down THEN 1 ELSE 0))

\* the device the inputs n leave in PrimaryControlDevice: the gamepad is read last
NavDevice(n, dev) ==
    IF n.pad_up \/ n.pad_down \/ n.pad_confirm THEN "Gamepad"
    ELSE IF n.key_up \/ n.key_down \/ n.key_confirm THEN "Keyboard" ELSE dev

\* selected_index: the place of the last button with SelectedOption, counted
\* from 1; the first button if there is none
SelectedIndex(bs) ==
    LET sel == {i \in 1..Len(bs) : bs[i].selected}
    IN  IF sel = {} THEN 1 ELSE CHOOSE i \in sel : \A j \in sel : j <= i

\* NavCommands that stops at the first and at the last button
NavCommands_NoWrap(bs, y) ==
    LET k == SelectedIndex(bs)
    IN  IF bs = <<>> THEN <<>>
        ELSE (IF y > GAMEPAD_STICK_DEADZONE
              THEN <<[op |-> "remove", button |-> k],
                     [op |-> "insert", button |-> Max(1, k - 1)]>>
              ELSE <<>>)
             \o (IF y < -GAMEPAD_STICK_DEADZONE
                 THEN <<[op |-> "remove", button |-> k],
                        [op |-> "insert", button |-> Min(Len(bs), k + 1)]>>
                 ELSE <<>>)

\* the commands of the navigation: the marker leaves the button at selected_index
\* for the one before it (up) or after it (down), around the ends
NavCommands(bs, y) ==
    LET k == SelectedIndex(bs)
    IN  IF bs = <<>> THEN <<>>
        ELSE (IF y > GAMEPAD_STICK_DEADZONE
              THEN <<[op |-> "remove", button |-> k],
                     [op |-> "insert", button |-> IF k = 1 THEN Len(bs) ELSE k - 1]>>
              ELSE <<>>)
             \o (IF y < -GAMEPAD_STICK_DEADZONE
                 THEN <<[op |-> "remove", button |-> k],
                        [op |-> "insert", button |-> IF k = Len(bs) THEN 1 ELSE k + 1]>>
                 ELSE <<>>)

\* the commands of a confirm: Interaction::Pressed on every button with SelectedOption
RECURSIVE ConfirmCommands(_, _)
ConfirmCommands(bs, i) ==
    IF i > Len(bs) THEN <<>>
    ELSE (IF bs[i].selected THEN <<[op |-> "press", button |-> i]>> ELSE <<>>)
         \o ConfirmCommands(bs, i + 1)

button_react_to_keyboard_or_gamepad_system ==
    /\ Ready("Update", "button_react_to_keyboard_or_gamepad_system")
    /\ \E n \in NavInputs :
          /\ primary_device' = NavDevice(n, primary_device)
          /\ ui_commands' = ui_commands \o NavCommands(buttons, NavMovement(n))
                \o (IF n.key_confirm \/ n.pad_confirm
                    THEN ConfirmCommands(buttons, 1) ELSE <<>>)
    /\ Ran("Update", "button_react_to_keyboard_or_gamepad_system", "PostUpdate")
    /\ UNCHANGED <<state, next_state, paused, rdelta, vdelta, overstep, players, aims,
                   bullets, score, screenshake, display, cursor_visible, camera,
                   app_exit, bounce_particles, commands, score_text, buttons>>
    /\ UNCHANGED randomness
    /\ UNCHANGED <<spawners, trail_particles, trail_commands, next_entity>>
    /\ UNCHANGED input
    /\ UNCHANGED flick_audio

\* the buttons bs after the commands cs have been applied in order
RECURSIVE Applied(_, _)
Applied(bs, cs) ==
    IF cs = <<>> THEN bs
    ELSE LET c == Head(cs)
         IN  Applied(
                 CASE c.op = "insert" -> [bs EXCEPT ![c.button].selected = TRUE]
                   [] c.op = "remove" -> [bs EXCEPT ![c.button].selected = FALSE]
                   [] OTHER -> [bs EXCEPT ![c.button].interaction = "Pressed"],
                 Tail(cs))

\* Timer::tick of the repeating timer of a TrailParticleSpawner: the time elapsed
\* of the period after delta more ms
TimerElapsed(elapsed, delta) == (elapsed + delta) % BULLET_PARTICLE_INTERVAL

\* Timer::just_finished after that tick: the period has ended in it
JustFinished(elapsed, delta) == elapsed + delta >= BULLET_PARTICLE_INTERVAL

\* the loop of spawn_bullet_trail from the i-th spawner of ss on, bs the bullets
\* they belong to and e the Entity the next spawn gets: the TrailParticle
\* entities spawned, each at the position of its bullet
RECURSIVE Trail(_, _, _, _, _)
Trail(ss, bs, i, e, delta) ==
    IF i > Len(ss) THEN <<>>
    ELSE IF JustFinished(ss[i], delta)
         THEN <<[entity |-> e, origin |-> bs[i].pos, lifetime |-> TRAIL_PARTICLE_LIFETIME]>>
              \o Trail(ss, bs, i + 1, (e + 1) % MaxEntities, delta)
         ELSE Trail(ss, bs, i + 1, e, delta)

\* spawn_bullet_trail: every spawner's timer is ticked by the virtual delta, and
\* a TrailParticle is spawned for each timer that has just finished
spawn_bullet_trail ==
    /\ Ready("Update", "spawn_bullet_trail")
    /\ LET new == Trail(spawners, bullets, 1, next_entity, vdelta)
       IN  /\ spawners' = [i \in 1..Len(spawners) |-> TimerElapsed(spawners[i], vdelta)]
           /\ trail_commands' = trail_commands \o new
           /\ next_entity' = (next_entity + Len(new)) % MaxEntities
    /\ Ran("Update", "spawn_bullet_trail", "PostUpdate")
    /\ UNCHANGED <<state, next_state, paused, rdelta, vdelta, overstep, players, aims,
                   bullets, score, screenshake, display, primary_device, cursor_visible,
                   camera, app_exit, bounce_particles, commands, score_text, buttons,
                   ui_commands, randomness, trail_particles>>
    /\ UNCHANGED input
    /\ UNCHANGED flick_audio

\* TrailAged that despawns nothing
TrailAged_Kept(ps, delta) ==
    [i \in 1..Len(ps) |-> [ps[i] EXCEPT !.lifetime = ps[i].lifetime - delta]]

\* handle_trail_particles: every particle ages by the virtual delta and is
\* despawned once its lifetime is negative
TrailAged(ps, delta) ==
    LET RECURSIVE Go(_)
        Go(q) ==
            IF q = <<>> THEN <<>>
            ELSE LET lifetime == Head(q).lifetime - delta
                 IN  (IF lifetime < 0 THEN <<>>
                      ELSE <<[Head(q) EXCEPT !.lifetime = lifetime]>>) \o Go(Tail(q))
    IN  Go(ps)

handle_trail_particles ==
    /\ Ready("Update", "handle_trail_particles")
    /\ trail_particles' = TrailAged(trail_particles, vdelta)
    /\ Ran("Update", "handle_trail_particles", "PostUpdate")
    /\ UNCHANGED <<state, next_state, paused, rdelta, vdelta, overstep, players, aims,
                   bullets, score, screenshake, display, primary_device, cursor_visible,
                   camera, app_exit, bounce_particles, commands, score_text, buttons,
                   ui_commands, randomness, spawners, trail_commands, next_entity>>
    /\ UNCHANGED input
    /\ UNCHANGED flick_audio

\* handle_screenshake: value.lerp(0.0, (delta_secs * SCREENSHAKE_DAMPENING).min(1.0))
handle_screenshake ==
    /\ Ready("Update", "handle_screenshake")
    /\ screenshake' = Lerp(screenshake, 0, Min(ONE, rdelta * SCREENSHAKE_DAMPENING))
    /\ Ran("Update", "handle_screenshake", "PostUpdate")
    /\ UNCHANGED <<state, next_state, paused, rdelta, vdelta, overstep, players, aims,
                   bullets, score, display, primary_device, cursor_visible, camera,
                   app_exit>>
    /\ UNCHANGED <<bounce_particles, commands, score_text>>
    /\ UNCHANGED <<buttons, ui_commands>>
    /\ UNCHANGED randomness
    /\ UNCHANGED <<spawners, trail_particles, trail_commands, next_entity>>
    /\ UNCHANGED input
    /\ UNCHANGED flick_audio

(* ----------------------------- PostUpdate ------------------------------ *)

\* app_init.run_if(run_once): the camera is spawned and Menu is asked for
app_init ==
    /\ phase = "PostUpdate"
    /\ ~camera
    /\ camera' = TRUE
    /\ next_state' = "Menu"
    /\ UNCHANGED <<state, paused, rdelta, vdelta, overstep, phase, todo, last, players, aims,
                   bullets, score, screenshake, display, primary_device,
                   cursor_visible, app_exit>>
    /\ UNCHANGED <<bounce_particles, commands, score_text>>
    /\ UNCHANGED <<buttons, ui_commands>>
    /\ UNCHANGED randomness
    /\ UNCHANGED <<spawners, trail_particles, trail_commands, next_entity>>
    /\ UNCHANGED input
    /\ UNCHANGED flick_audio

\* button_handle_display only recolours the buttons; the frame ends, and the
\* runner starts another one unless AppExit was written
button_handle_display ==
    /\ phase = "PostUpdate"
    /\ camera
    /\ ~app_exit
    /\ phase' = "First"
    /\ UNCHANGED <<state, next_state, paused, rdelta, vdelta, overstep, todo, last, players,
                   aims, bullets, score, screenshake, display, primary_device,
                   cursor_visible, camera, app_exit>>
    /\ UNCHANGED <<bounce_particles, commands, score_text>>
    /\ UNCHANGED <<buttons, ui_commands>>
    /\ UNCHANGED randomness
    /\ UNCHANGED <<spawners, trail_particles, trail_commands, next_entity>>
    /\ UNCHANGED input
    /\ UNCHANGED flick_audio

(* --------------------------- the specification ------------------------- *)

Next ==
    \/ time_system
    \/ check_for_mouse_input
    \/ apply_state_transition
    \/ run_fixed_main_loop
    \/ move_player
    \/ clamp_player
    \/ move_player_aim
    \/ clamp_player_aim
    \/ move_bouncers
    \/ handle_bullet_collision
    \/ handle_bounce_particles
    \/ resize_screen_bounds
    \/ handle_game_pausing
    \/ spawn_bullet
    \/ handle_score
    \/ handle_game_over_continue
    \/ menu_action
    \/ handle_screenshake
    \/ app_init
    \/ button_handle_display

Spec == Init /\ [][Next]_vars

(* ------------------- the collision pass of a fixed step ---------------- *)

\* Spec follows a round only up to MaxBullets bullets and a few inputs.  The
\* specification below starts in the fixed step of a round, when only
\* handle_bullet_collision of that step is still to run, with two or three live
\* bullets at positions that put the pairs below, at, inside and beyond the two
\* distances the loop compares with (1.0 px = 50 units, collision_distance = 960
\* units), and with a bullet whose position is NaN, which spawn_bullet creates
\* when the aim is on the player.

\* the positions of the bullets when the pass starts
CollisionPositions ==
    {Vec(0, 0), Vec(49, 0), Vec(50, 0), Vec(600, 0), Vec(960, 0), Vec(1200, 0),
     Vec(300, 400), NaNVec}

\* the velocities of the bullets when the pass starts
CollisionVelocities == {Vec(0, 1000), Vec(600, -800)}

\* the samples drawn by the bursts before the pass starts
CollisionDraws == {0, 32, 96}

\* the position of the player when the pass starts: far from every bullet, or
\* closer than collision_distance to the bullets at (0, 0), (49, 0), (50, 0) and
\* (300, 400)
CollisionPlayers == {Vec(-12000, 0), Vec(0, 900)}

\* the bullets when the pass starts
CollisionBullets ==
    UNION {[1..n -> [pos : CollisionPositions, vel : CollisionVelocities]] : n \in 2..3}

CollisionInit ==
    /\ state = "InGame"
    /\ next_state = "Unchanged"
    /\ paused = FALSE
    /\ rdelta = Timestep
    /\ vdelta = Timestep
    /\ overstep = 0
    /\ phase = "FixedUpdate"
    /\ todo = {"handle_bullet_collision"}
    /\ last = "move_bouncers"
    /\ \E p \in CollisionPlayers : players = <<[pos |-> p, bullet_timer |-> 50]>>
    /\ aims = <<Vec(1, 1)>>
    /\ bullets \in CollisionBullets
    /\ score = 2500
    /\ screenshake = 0
    /\ display = DefaultDisplay
    /\ primary_device = "Keyboard"
    /\ cursor_visible = FALSE
    /\ camera = TRUE
    /\ app_exit = FALSE
    /\ bounce_particles = <<>>
    /\ commands = <<>>
    /\ score_text = <<convert_time_to_text(score)>>
    /\ buttons = <<>>
    /\ ui_commands = <<>>
    /\ randomness \in CollisionDraws
    /\ spawners = <<>>
    /\ trail_particles = <<>>
    /\ trail_commands = <<>>
    /\ next_entity = 0
    /\ input = NoInput
    /\ flick_audio = 0

CollisionNext == handle_bullet_collision

CollisionSpec == CollisionInit /\ [][CollisionNext]_vars

(* ---------------------- the spawner of an Update ------------------------ *)

\* The specification below starts in the Update of a frame of a round, when only
\* spawn_bullet is still to run, over the inputs of spawn_bullet: the cooldown
\* left, the score, and the positions of the player and of the aim, the aim on the
\* player included (the window shrunk to nothing clamps both to the origin; a
\* mouse motion can put the aim on the player).  The cooldown added is a function
\* of the score alone, and the scores range from 0 to beyond 10 s; in a round the
\* first spawn comes when the 2.0 s of spawn_player have run down.

\* Player.bullet_timer before spawn_bullet runs, ms
SpawnTimers == {-12, 50, 250, 300, 2000}

\* Score.value when spawn_bullet runs, ms
SpawnScores ==
    {0, 1000, 1750, 2000, 2500, 3163, 5000, 7500, 9000, 9999, 10000, 10001, 15000, 30000}

\* the position of the player when spawn_bullet runs
SpawnPlayers == {Vec(0, 0), Vec(3000, 0)}

\* the position of the aim when spawn_bullet runs
SpawnAims == {Vec(1, 1), Vec(0, 0), Vec(3000, 0), Vec(16000, 1)}

\* the DisplayProperties when spawn_bullet runs: those of main(), and those of
\* a window resized to 1920 x 1080
SpawnDisplays == {DefaultDisplay, [w |-> 1920, h |-> 1080]}

\* the bullets alive when spawn_bullet runs
SpawnBullets == {<<>>, <<[pos |-> Vec(600, 400), vel |-> Vec(600, -800)]>>}

SpawnInit ==
    /\ state = "InGame"
    /\ next_state = "Unchanged"
    /\ paused = FALSE
    /\ rdelta = Timestep
    /\ vdelta = Timestep
    /\ overstep = 0
    /\ phase = "Update"
    /\ todo = {"spawn_bullet"}
    /\ last = "handle_game_pausing"
    /\ \E p \in SpawnPlayers, t \in SpawnTimers :
          players = <<[pos |-> p, bullet_timer |-> t]>>
    /\ \E a \in SpawnAims : aims = <<a>>
    /\ bullets \in SpawnBullets
    /\ score \in SpawnScores
    /\ screenshake = 0
    /\ display \in SpawnDisplays
    /\ primary_device = "Keyboard"
    /\ cursor_visible = FALSE
    /\ camera = TRUE
    /\ app_exit = FALSE
    /\ bounce_particles = <<>>
    /\ commands = <<>>
    /\ score_text = <<convert_time_to_text(score)>>
    /\ buttons = <<>>
    /\ ui_commands = <<>>
    /\ randomness = 0
    /\ spawners = <<>>
    /\ trail_particles = <<>>
    /\ trail_commands = <<>>
    /\ next_entity = 0
    /\ input = NoInput
    /\ flick_audio = 0

SpawnNext == spawn_bullet

SpawnSpec == SpawnInit /\ [][SpawnNext]_vars

(* ------------------------ the score of an Update ----------------------- *)

\* The specification below starts in the Update of a frame of a round, when only
\* handle_score is still to run, over scores up to 100 minutes and frames of up to
\* 250 ms of virtual time.

\* Score.value before handle_score runs, ms
TextScores ==
    {0, 5, 9, 10, 990, 9990, 59740, 59990, 65080, 65320, 599990, 3599750, 5999740,
     5999990} \cup {k * 12345 : k \in 1..20}

\* Time<Virtual>.delta of the frame, ms
TextDeltas == {0, 10, 250}

TextInit ==
    /\ state = "InGame"
    /\ next_state = "Unchanged"
    /\ paused = FALSE
    /\ vdelta \in TextDeltas
    /\ rdelta = vdelta
    /\ overstep = 0
    /\ phase = "Update"
    /\ todo = {"handle_score"}
    /\ last = "handle_game_pausing"
    /\ players = <<[pos |-> Vec(0, 0), bullet_timer |-> 50]>>
    /\ aims = <<Vec(1, 1)>>
    /\ bullets = <<>>
    /\ score \in TextScores
    /\ screenshake = 0
    /\ display = DefaultDisplay
    /\ primary_device = "Keyboard"
    /\ cursor_visible = FALSE
    /\ camera = TRUE
    /\ app_exit = FALSE
    /\ bounce_particles = <<>>
    /\ commands = <<>>
    /\ score_text = gameplay_ui_setup(<<>>)
    /\ buttons = <<>>
    /\ ui_commands = <<>>
    /\ randomness = 0
    /\ spawners = <<>>
    /\ trail_particles = <<>>
    /\ trail_commands = <<>>
    /\ next_entity = 0
    /\ input = NoInput
    /\ flick_audio = 0

TextNext == handle_score

TextSpec == TextInit /\ [][TextNext]_vars

(* ------------------------ the buttons of a menu ------------------------ *)

\* Spec takes the Interaction of the buttons as an input of menu_action and leaves
\* the systems that mark the buttons out.  The specification below follows these
\* systems over the frames of a menu that stays open: it starts when Menu or
\* Paused has been entered, and a frame is check_for_mouse_input, the Interaction
\* of every button set from the pointer, the two button systems in either order,
\* and their Commands applied.  A frame starts only while no button is Pressed:
\* a pressed button ends the menu (or the application).

\* the button the pointer is over in a frame, 0 for none
Pointers == 0..3

\* the buttons, commands applied, at the end of a frame: the next frame starts
FrameEnd == phase = "PreUpdate" /\ state \in {"Menu", "Paused"}

MenuInit ==
    /\ state \in {"Menu", "Paused"}
    /\ next_state = "Unchanged"
    /\ paused = (state = "Paused")
    /\ rdelta = Timestep
    /\ vdelta = VirtualDelta(Timestep)
    /\ overstep = 0
    /\ phase = "PreUpdate"
    /\ todo = {}
    /\ last = "none"
    /\ players = IF state = "Paused" THEN spawn_player(<<>>) ELSE <<>>
    /\ aims = IF state = "Paused" THEN spawn_player_aim(<<>>) ELSE <<>>
    /\ bullets = <<>>
    /\ score = IF state = "Paused" THEN Timestep ELSE 0
    /\ screenshake = 0
    /\ display = DefaultDisplay
    /\ primary_device = "Keyboard"
    /\ cursor_visible = TRUE
    /\ camera = TRUE
    /\ app_exit = FALSE
    /\ bounce_particles = <<>>
    /\ commands = <<>>
    /\ score_text = IF state = "Paused"
                    THEN <<convert_time_to_text(Timestep)>> ELSE <<>>
    /\ buttons = MenuSetup(state)
    /\ ui_commands = <<>>
    /\ randomness = 0
    /\ spawners = <<>>
    /\ trail_particles = <<>>
    /\ trail_commands = <<>>
    /\ next_entity = 0
    /\ input = NoInput
    /\ flick_audio = 0

\* ui_focus_system of the engine (PreUpdate): no mouse button is pressed, and the
\* Interaction of a button is Hovered if the pointer is over it and None if not.
\* No transition is pending and the fixed steps do not touch the buttons, so the
\* button systems of Update are what follows.
ui_focus_system ==
    /\ phase = "StateTransition"
    /\ state \in {"Menu", "Paused"}
    /\ \A i \in 1..Len(buttons) : buttons[i].interaction # "Pressed"
    /\ \E p \in Pointers :
          /\ p <= Len(buttons)
          /\ buttons' = [i \in 1..Len(buttons) |->
                [buttons[i] EXCEPT !.interaction = IF i = p THEN "Hovered" ELSE "None"]]
    /\ phase' = "Update"
    /\ todo' = {"button_react_to_mouse_system", "button_react_to_keyboard_or_gamepad_system"}
    /\ last' = "none"
    /\ UNCHANGED <<state, next_state, paused, rdelta, vdelta, overstep, players, aims,
                   bullets, score, screenshake, display, primary_device, cursor_visible,
                   camera, app_exit, bounce_particles, commands, score_text, ui_commands>>
    /\ UNCHANGED randomness
    /\ UNCHANGED <<spawners, trail_particles, trail_commands, next_entity>>
    /\ UNCHANGED input
    /\ UNCHANGED flick_audio

\* the Commands of the button systems are applied when Update has run
apply_deferred ==
    /\ phase = "PostUpdate"
    /\ state \in {"Menu", "Paused"}
    /\ buttons' = Applied(buttons, ui_commands)
    /\ ui_commands' = <<>>
    /\ phase' = "PreUpdate"
    /\ UNCHANGED <<state, next_state, paused, rdelta, vdelta, overstep, todo, last,
                   players, aims, bullets, score, screenshake, display, primary_device,
                   cursor_visible, camera, app_exit, bounce_particles, commands,
                   score_text>>
    /\ UNCHANGED randomness
    /\ UNCHANGED <<spawners, trail_particles, trail_commands, next_entity>>
    /\ UNCHANGED input
    /\ UNCHANGED flick_audio

MenuNext ==
    \/ check_for_mouse_input
    \/ ui_focus_system
    \/ button_react_to_mouse_system
    \/ button_react_to_keyboard_or_gamepad_system
    \/ apply_deferred

MenuSpec == MenuInit /\ [][MenuNext]_vars

(* ------------------------ the particles of a round -------------------- *)

\* Spec leaves the trail of the bullets out: spawn_bullet_trail and
\* handle_trail_particles touch nothing that another system reads.  The
\* specification below follows the two kinds of particles over the frames of a
\* round, which the pause input interrupts and resumes: a frame is the clocks,
\* the pending transition, the fixed steps with handle_bounce_particles, Update
\* with handle_game_pausing and the two trail systems, and the Commands of Update
\* applied.  The systems it leaves out write neither the clocks nor the
\* particles.  It starts at the first frame after a bullet was spawned, or at the
\* frame after two bullets, alive for some frames, have collided.

\* the systems ParticleSpec follows
ParticleSystems ==
    {"handle_bounce_particles", "handle_game_pausing", "spawn_bullet_trail",
     "handle_trail_particles"}

\* the bullet spawn_bullet spawns for a player at the origin who aims right
FirstBullet == NewBullet(Vec(0, 0), Vec(40000, 0), DefaultDisplay)

\* two bullets at the collision distance of each other
CollidedBullets == <<[pos |-> Vec(0, 6000), vel |-> Vec(-1000, 0)],
                     [pos |-> Vec(960, 6000), vel |-> Vec(1000, 0)]>>

\* the trail of CollidedBullets at the end of a frame: for each bullet the
\* particles of the last three frames, the oldest first
CollidedTrail ==
    [k \in 1..6 |->
        [entity |-> k - 1, origin |-> CollidedBullets[2 - (k % 2)].pos,
         lifetime |-> TRAIL_PARTICLE_LIFETIME - Timestep * (2 - ((k - 1) \div 2))]]

ParticleInit ==
    /\ state = "InGame"
    /\ next_state = "Unchanged"
    /\ paused = FALSE
    /\ rdelta = Timestep
    /\ vdelta = Timestep
    /\ overstep = 0
    /\ phase = "First"
    /\ todo = {}
    /\ last = "none"
    /\ players = <<[pos |-> Vec(0, 0), bullet_timer |-> 100]>>
    /\ aims = <<Vec(40000, 0)>>
    /\ score = 2500
    /\ screenshake = 0
    /\ display = DefaultDisplay
    /\ primary_device = "Keyboard"
    /\ cursor_visible = FALSE
    /\ camera = TRUE
    /\ app_exit = FALSE
    /\ commands = <<>>
    /\ score_text = <<convert_time_to_text(score)>>
    /\ buttons = <<>>
    /\ ui_commands = <<>>
    /\ trail_commands = <<>>
    /\ input = NoInput
    /\ flick_audio = 0
    /\ \/ /\ bullets = <<FirstBullet>>
          /\ spawners = <<0>>
          /\ trail_particles = <<>>
          /\ next_entity = 0
          /\ bounce_particles = <<>>
          /\ randomness = 0
       \/ /\ bullets = CollidedBullets
          /\ spawners \in [1..2 -> {0, BULLET_PARTICLE_INTERVAL \div 2}]
          /\ trail_particles = CollidedTrail
          /\ next_entity = 6
          /\ bounce_particles = Burst(bullets, <<1, 2>>, 0)
          /\ randomness = COLLISION_PARTICLE_COUNT

\* the systems of Update that run in every state and frame and that UpdateSystems
\* leaves out
TrailSystems == {"spawn_bullet_trail", "handle_trail_particles"}

particle_main_loop ==
    RunFixedMainLoop(FixedUpdateSystems \cap ParticleSystems,
                     (UpdateSystems \cup TrailSystems) \cap ParticleSystems)

\* the Commands of spawn_bullet_trail are applied when Update has run; the frame
\* ends
apply_trail_commands ==
    /\ phase = "PostUpdate"
    /\ trail_particles' = trail_particles \o trail_commands
    /\ trail_commands' = <<>>
    /\ phase' = "First"
    /\ UNCHANGED <<state, next_state, paused, rdelta, vdelta, overstep, todo, last,
                   players, aims, bullets, score, screenshake, display, primary_device,
                   cursor_visible, camera, app_exit, bounce_particles, commands,
                   score_text, buttons, ui_commands, randomness, spawners, next_entity>>
    /\ UNCHANGED input
    /\ UNCHANGED flick_audio

ParticleNext ==
    \/ time_system
    \/ check_for_mouse_input
    \/ apply_state_transition
    \/ particle_main_loop
    \/ handle_bounce_particles
    \/ handle_game_pausing
    \/ spawn_bullet_trail
    \/ handle_trail_particles
    \/ apply_trail_commands

\* every schedule of the Main schedule runs in every frame, and no system waits
ParticleSpec == ParticleInit /\ [][ParticleNext]_vars /\ WF_vars(ParticleNext)

(* ---------------------- the controls of a fixed step ------------------ *)

\* Spec holds one movement key and leaves the sticks at rest.  The specification
\* below follows the first fixed step of a round, which moves and clamps the
\* player and the aim, over the keys held, the sticks of no or one gamepad below,
\* at and beyond their deadzones, and a still or moving mouse; the inputs of the
\* step are kept in `input`.

\* ButtonInput<KeyCode>.pressed for the movement keys
ControlKeys == [up : BOOLEAN, down : BOOLEAN, left : BOOLEAN, right : BOOLEAN]

\* the left sticks of the connected gamepads: no gamepad, or one with the stick at
\* rest, at the deadzone on x, and beyond it on x or on y
ControlLeftSticks ==
    {<<>>, << <<0, 0>> >>, << <<GAMEPAD_STICK_DEADZONE, 0>> >>, << <<600, 0>> >>,
     << <<0, -1000>> >>}

\* the right sticks of the connected gamepads: no gamepad, or one with the stick at
\* rest, within the deadzone, at its length, and beyond it
ControlRightSticks ==
    {<<>>, << <<0, 0>> >>, << <<400, 0>> >>, << <<300, 400>> >>, << <<1000, 0>> >>}

ControlInit ==
    /\ state = "InGame"
    /\ next_state = "Unchanged"
    /\ paused = FALSE
    /\ rdelta = Timestep
    /\ vdelta = Timestep
    /\ overstep = 0
    /\ players = spawn_player(<<>>)
    /\ aims = spawn_player_aim(<<>>)
    /\ bullets = <<>>
    /\ phase = "FixedUpdate"
    /\ todo = FixedUpdateSystems
    /\ last = "none"
    /\ score = 0
    /\ screenshake = 0
    /\ display = DefaultDisplay
    /\ primary_device \in {"Keyboard", "Gamepad", "Mouse"}
    /\ cursor_visible = FALSE
    /\ camera = TRUE
    /\ app_exit = FALSE
    /\ bounce_particles = <<>>
    /\ commands = <<>>
    /\ score_text = gameplay_ui_setup(<<>>)
    /\ buttons = <<>>
    /\ ui_commands = <<>>
    /\ randomness = 0
    /\ spawners = <<>>
    /\ trail_particles = <<>>
    /\ trail_commands = <<>>
    /\ next_entity = 0
    /\ input \in [keys : ControlKeys, left : ControlLeftSticks, right : ControlRightSticks,
                  motion : MouseMotions]
    /\ flick_audio = 0

\* move_player with the keys and the left sticks of `input`
move_player_input == MovePlayer({input.keys}, {input.left})

\* move_player_aim with the mouse motion and the right sticks of `input`
move_player_aim_input == MovePlayerAim({input.motion}, {input.right})

ControlNext ==
    \/ move_player_input
    \/ clamp_player
    \/ move_player_aim_input
    \/ clamp_player_aim
    \/ move_bouncers
    \/ handle_bullet_collision
    \/ handle_bounce_particles

ControlSpec == ControlInit /\ [][ControlNext]_vars

(* ------------------- the fixed steps of a long frame ------------------- *)

\* ContactSpec follows the bullets of a round through the fixed steps of one
\* frame.  main() leaves Time<Fixed> and Time<Virtual> at their defaults, under
\* which a slow frame accumulates several fixed periods and RunFixedMainLoop
\* runs FixedUpdate once for each before Update starts.

\* the fixed periods the frame of ContactSpec has accumulated
ContactSteps == 2

ContactSystems == {"move_bouncers", "handle_bullet_collision", "handle_bounce_particles"}

\* a bullet on the line y = 0 that moves along it
OnLine(x, vx) == [pos |-> Vec(x, 0), vel |-> Vec(vx, 0)]

\* the bullets of the round: three in a row 900 apart, the middle one first or
\* last; two that approach; two that touch; two at collision_distance exactly;
\* two out of reach of each other
ContactBullets ==
    { <<OnLine(0, ONE), OnLine(900, ONE), OnLine(-900, -ONE)>>,
      <<OnLine(-900, -ONE), OnLine(900, ONE), OnLine(0, ONE)>>,
      <<OnLine(0, ONE), OnLine(5700, -ONE)>>,
      <<OnLine(0, -ONE), OnLine(900, ONE)>>,
      <<OnLine(0, ONE), OnLine(900, ONE)>>,
      <<OnLine(0, ONE), OnLine(960, ONE)>>,
      <<OnLine(0, ONE), OnLine(960, -ONE)>>,
      <<OnLine(0, ONE), OnLine(3000, ONE)>>,
      <<OnLine(0, ONE), OnLine(6600, -ONE)>> }

ContactInit ==
    /\ state = "InGame"
    /\ next_state = "Unchanged"
    /\ paused = FALSE
    /\ rdelta = ContactSteps * Timestep
    /\ vdelta = ContactSteps * Timestep
    /\ overstep = ContactSteps * Timestep
    /\ phase = "RunFixedMainLoop"
    /\ todo = {}
    /\ last = "none"
    /\ players \in {<<[pos |-> p, bullet_timer |-> 1000]>> : p \in CollisionPlayers}
    /\ aims = spawn_player_aim(<<>>)
    /\ bullets \in ContactBullets
    /\ score = 5000
    /\ screenshake = 0
    /\ display = DefaultDisplay
    /\ primary_device = "Keyboard"
    /\ cursor_visible = FALSE
    /\ camera = TRUE
    /\ app_exit = FALSE
    /\ bounce_particles = <<>>
    /\ commands = <<>>
    /\ score_text = <<convert_time_to_text(score)>>
    /\ buttons = <<>>
    /\ ui_commands = <<>>
    /\ randomness = 0
    /\ spawners = <<>>
    /\ trail_particles = <<>>
    /\ trail_commands = <<>>
    /\ next_entity = 0
    /\ input = NoInput
    /\ flick_audio = 0

\* RunFixedMainLoop over the systems of FixedUpdate that ContactSpec follows; it
\* stops where Update starts
contact_main_loop == RunFixedMainLoop(FixedUpdateSystems \cap ContactSystems, {})

ContactNext ==
    \/ contact_main_loop
    \/ move_bouncers
    \/ handle_bullet_collision
    \/ handle_bounce_particles

ContactSpec == ContactInit /\ [][ContactNext]_vars

(* ------------------------------- claims -------------------------------- *)

\* system sys runs in this step
Runs(sys) == sys \in todo /\ sys \notin todo'

\* the edges of the AppState machine
Edges ==
    { <<"Uninitialized", "Menu">>, <<"Menu", "InGame">>, <<"InGame", "Paused">>,
      <<"Paused", "InGame">>, <<"Paused", "Menu">>, <<"InGame", "GameOver">>,
      <<"GameOver", "Menu">> }

\* C1: the AppState changes only along the edges Uninitialized -> Menu,
\* Menu -> InGame, InGame -> Paused, Paused -> InGame, Paused -> Menu,
\* InGame -> GameOver and GameOver -> Menu.
C1_StateEdges == [][state' # state => <<state, state'>> \in Edges]_vars

\* C1: GameOver has been entered (from InGame, its only edge), time paused
C1_Witness == state = "GameOver" /\ paused /\ phase = "RunFixedMainLoop"

\* C2, as the specification states it: whenever handle_bullet_collision runs and
\* some live bullet is closer to the player than the collision distance, be it
\* the only live bullet, the game is over: GameOver is requested and the virtual
\* clock is paused.
C2_KillCheckForEveryBullet ==
    [][(/\ Runs("handle_bullet_collision")
        /\ \E i \in 1..Len(bullets) : KillHit(bullets[i].pos, players[1].pos, display))
       => next_state' = "GameOver" /\ paused']_vars

\* C2: a frame's fixed steps are over, the only live bullet overlaps the player,
\* and neither is GameOver requested nor the clock paused
C2_Witness ==
    /\ phase = "Update"
    /\ state = "InGame"
    /\ Len(bullets) = 1
    /\ KillHit(bullets[1].pos, players[1].pos, display)
    /\ next_state = "Unchanged"
    /\ ~paused

\* C3, as the specification states it: once the player kill has been triggered
\* InGame (GameOver is requested), whatever else is handled in the same frame
\* the request stands until the transition is applied, which enters GameOver,
\* and the virtual clock stays paused.
C3_KillYieldsGameOver ==
    [][(state = "InGame" /\ next_state = "GameOver")
       => (next_state' = "GameOver" \/ state' = "GameOver") /\ paused']_vars

\* C3: in the Update of a frame whose fixed step triggered the kill (with two
\* bullets, one pair, only a kill brings the screenshake to SCREENSHAKE_ON_DEATH)
\* the pause input has replaced the request: Paused is the state asked for
C3_Witness ==
    /\ phase = "Update"
    /\ state = "InGame"
    /\ {"handle_screenshake", "spawn_bullet"} \subseteq todo
    /\ Len(bullets) = 2
    /\ screenshake >= SCREENSHAKE_ON_DEATH
    /\ next_state = "Paused"

\* C4: in Menu, on every visit, the InGame that Play asks for stands until the
\* transition is applied, and every change of the AppState out of Menu enters
\* InGame with exactly one player, at the origin with a cooldown of 2.0 s,
\* exactly one aim and no bullet.
C4_PlayStartsFreshRound ==
    /\ [][(state = "Menu" /\ next_state = "InGame")
          => next_state' = "InGame" \/ state' = "InGame"]_vars
    /\ [][(state = "Menu" /\ state' # "Menu")
          => /\ state' = "InGame"
             /\ players' = <<[pos |-> Vec(0, 0), bullet_timer |-> 2000]>>
             /\ Len(aims') = 1
             /\ bullets' = <<>>]_vars

\* C4: a round has just been entered
C4_Witness ==
    /\ state = "InGame"
    /\ phase = "RunFixedMainLoop"
    /\ players = <<[pos |-> Vec(0, 0), bullet_timer |-> 2000]>>
    /\ Len(aims) = 1
    /\ bullets = <<>>
    /\ ~cursor_visible

\* C5: there is at most one player and at most one aim, and each exists exactly
\* when the AppState is InGame, Paused or GameOver.
C5_OnePlayerOneAim ==
    /\ Len(players) <= 1
    /\ Len(aims) <= 1
    /\ Len(players) = 1 <=> state \in {"InGame", "Paused", "GameOver"}
    /\ Len(aims) = 1 <=> state \in {"InGame", "Paused", "GameOver"}

\* C5: a round is over, its player and aim still exist, and Menu is asked for
C5_Witness == state = "GameOver" /\ Len(players) = 1 /\ Len(aims) = 1 /\ next_state = "Menu"

\* C6: after each change of the AppState, the virtual clock is paused exactly
\* when the new state is Paused or GameOver.
C6_PausedIffPausedOrGameOver ==
    [][state' # state => (paused' <=> state' \in {"Paused", "GameOver"})]_vars

\* C6: Paused has been entered and the clock is paused
C6_Witness == state = "Paused" /\ paused /\ phase = "RunFixedMainLoop" /\ vdelta = 0

\* C7: the score is never negative and is 0 throughout Menu; it changes only
\* by the virtual delta added by handle_score InGame and by the reset to 0 on
\* entering Menu, and every entry into Menu resets it.
C7_Score ==
    /\ [](score >= 0 /\ (state = "Menu" => score = 0))
    /\ [][/\ score' # score
             => \/ Runs("handle_score") /\ state = "InGame" /\ score' = score + vdelta
                \/ state # "Menu" /\ state' = "Menu" /\ score' = 0
          /\ (state # "Menu" /\ state' = "Menu") => score' = 0]_vars

\* C7: a round has been played up to a game over with a positive score
C7_Witness == state = "GameOver" /\ score > 0

\* C8: a run of handle_game_pausing either leaves the requested state and the
\* pause flag alone, or, InGame, requests Paused and pauses, or, Paused,
\* requests InGame and unpauses; in the other states it changes neither.
C8_PauseToggle ==
    [][Runs("handle_game_pausing")
       => \/ next_state' = next_state /\ paused' = paused
          \/ state = "InGame" /\ next_state' = "Paused" /\ paused'
          \/ state = "Paused" /\ next_state' = "InGame" /\ ~paused']_vars

\* C8: the pause input has been taken InGame
C8_Witness == phase = "PostUpdate" /\ state = "InGame" /\ next_state = "Paused" /\ paused

C10_BouncePreservesSpeed ==
    [][Runs("move_bouncers")
       => /\ Len(bullets') = Len(bullets)
          /\ \A i \in 1..Len(bullets) :
                /\ bullets'[i].vel.nan = bullets[i].vel.nan
                /\ Abs(bullets'[i].vel.x) = Abs(bullets[i].vel.x)
                /\ Abs(bullets'[i].vel.y) = Abs(bullets[i].vel.y)]_vars

\* C10: the only bullet is beyond the right margin and moves inwards: it has
\* been reflected by move_bouncers
C10_Witness ==
    /\ Len(bullets) = 1
    /\ bullets[1].pos.x > half_w(display) - Radius(display)
    /\ bullets[1].vel.x < 0

(* --------------------- C11..C13: the collision pass -------------------- *)

\* the pair c of the bullets bs is at a distance d with 1.0 <= d < collision_distance
InWindow(bs, c, d) ==
    LET a == bs[c[1]].pos
        b == bs[c[2]].pos
    IN  /\ ~a.nan /\ ~b.nan
        /\ Len2(a.x - b.x, a.y - b.y) >= PX * PX
        /\ Len2(a.x - b.x, a.y - b.y) < collision_distance(d) * collision_distance(d)

\* v is of unit magnitude, to the rounding of its two components
UnitVelocity(v) == ~v.nan /\ Abs(Len2(v.x, v.y) - ONE * ONE) <= 2 * ONE

\* the velocities of the pair c in as are opposite, of unit magnitude and directed
\* along the line between the positions the pair has in bs, each away from the other
Opposed(bs, as, c) ==
    LET dx == bs[c[1]].pos.x - bs[c[2]].pos.x
        dy == bs[c[1]].pos.y - bs[c[2]].pos.y
        va == as[c[1]].vel
        vb == as[c[2]].vel
    IN  /\ UnitVelocity(va) /\ UnitVelocity(vb)
        /\ va.x = -vb.x /\ va.y = -vb.y
        /\ va.x * dx + va.y * dy > 0
        /\ Abs(va.x * dy - va.y * dx) <= Abs(dx) + Abs(dy)

\* the pairs of n bullets, as a set
Pairs(n) == {c \in (1..n) \X (1..n) : c[1] < c[2]}

\* a pair fetched after c in the pass shares a bullet with c and is resolved too
ResolvedLater(bs, c, d) ==
    LET cs == Combinations(Len(bs))
    IN  \E k, l \in 1..Len(cs) :
           /\ cs[k] = c /\ k < l
           /\ {cs[l][1], cs[l][2]} \cap {c[1], c[2]} # {}
           /\ PairBounces(bs, cs[l], d)

\* every bullet of bs has a position without NaN
Defined(bs) == \A i \in 1..Len(bs) : ~bs[i].pos.nan

\* C11 as stated: after the collision pass, every pair of bullets that was at a
\* distance d with 1.0 <= d < threshold has opposite velocities of unit magnitude
\* along the line between the two, each bullet moving away from the other.
\* Stated for the passes in which every bullet has a defined position.
C11_PassSymmetry ==
    [][Runs("handle_bullet_collision") /\ Defined(bullets)
       => \A c \in Pairs(Len(bullets)) :
             InWindow(bullets, c, display) => Opposed(bullets, bullets', c)]_vars

\* C11 amended: the same, for every pair in the window none of whose bullets is in a
\* pair that the pass resolves after it: a later resolution overwrites the velocity.
C11_PairSymmetry ==
    [][Runs("handle_bullet_collision")
       => \A c \in Pairs(Len(bullets)) :
             InWindow(bullets, c, display) /\ ~ResolvedLater(bullets, c, display)
                => Opposed(bullets, bullets', c)]_vars

\* C11: the pass has run on three bullets in a row, 600 units apart: the first
\* two moved vertically before and now move as the last resolutions left
\* them, the middle one away from the third
C11_Witness ==
    /\ phase = "RunFixedMainLoop"
    /\ Len(bullets) = 3
    /\ bullets[1].pos = Vec(0, 0) /\ bullets[2].pos = Vec(600, 0)
    /\ bullets[3].pos = Vec(1200, 0)
    /\ bullets[2].vel = Vec(-1000, 0) /\ bullets[3].vel = Vec(1000, 0)
    /\ bullets[1].vel = Vec(-1000, 0)

\* C12: handle_bullet_collision resolves a pair exactly when its distance d has
\* 1.0 <= d < threshold: a pass without a kill adds SCREENSHAKE_ON_BOUNCE once per
\* pair in that window and nothing else, and leaves the velocity of every bullet
\* that is in no such pair as it was.  Stated for the passes in which every bullet
\* has a defined position.
C12_BounceWindow ==
    [][/\ Runs("handle_bullet_collision")
       /\ Defined(bullets)
       /\ \A i \in 1..Len(bullets) : ~KillHit(bullets[i].pos, players[1].pos, display)
       => /\ screenshake' = screenshake + SCREENSHAKE_ON_BOUNCE
                 * Cardinality({c \in Pairs(Len(bullets)) : InWindow(bullets, c, display)})
          /\ \A i \in 1..Len(bullets) :
                (\A c \in Pairs(Len(bullets)) :
                    i \in {c[1], c[2]} => ~InWindow(bullets, c, display))
                => bullets'[i].vel = bullets[i].vel]_vars

\* C12: the pass has run on two bullets exactly collision_distance apart and has
\* resolved the pair: bounce screenshake was added and the two move apart
C12_Witness ==
    /\ phase = "RunFixedMainLoop"
    /\ Len(bullets) = 2
    /\ bullets[1].pos = Vec(0, 0) /\ bullets[2].pos = Vec(960, 0)
    /\ collision_distance(display) = 960
    /\ screenshake = SCREENSHAKE_ON_BOUNCE
    /\ bullets[1].vel = Vec(-1000, 0) /\ bullets[2].vel = Vec(1000, 0)

\* the pairs that a pass on the bullets bs resolves
Resolved(bs, d) == {c \in Pairs(Len(bs)) : PairBounces(bs, c, d)}

\* how many elements of the sequence q satisfy origin = p
CountAt(q, p) == Cardinality({i \in 1..Len(q) : q[i].origin = p})

Spawns == Runs("spawn_bullet") /\ Len(bullets') = Len(bullets) + 1

\* the cooldown spawn_bullet has added to bullet_timer in this step, ms
Added == players'[1].bullet_timer - (players[1].bullet_timer - vdelta)

\* C14: the cooldown added to bullet_timer after a spawn is within [0.05 s, 2.0 s],
\* is 0.05 s at score 0 and 2.0 s at every score >= 10 s, and is not smaller than
\* the cooldown of any smaller score (non-decreasing in the score over 0..10 s).
C14_CooldownMonotone ==
    [][Spawns
       => /\ 50 <= Added /\ Added <= 2000
          /\ score = 0 => Added = 50
          /\ score >= 10000 => Added = 2000
          /\ \A s \in 0..Min(score, 10000) : SpawnCooldown(s) <= Added]_vars

\* C14: a bullet has been spawned at score 5 s with 50 ms of cooldown left and a
\* frame of 250 ms: the timer is -200 ms plus the cooldown of 538 ms (0.05 + 1.95 / 4)
C14_Witness ==
    /\ phase = "PostUpdate"
    /\ score = 5000
    /\ Len(bullets) = 2
    /\ players[1].bullet_timer = 338

\* C15: the cooldown added after a spawn is not larger than the cooldown added at
\* any smaller score: the spawner scales the cooldown down as the score rises.
C15_CooldownShrinks ==
    [][Spawns => \A s \in SpawnScores : s < score => Added <= SpawnCooldown(s)]_vars

\* C15: a bullet has been spawned at score 10 s with 50 ms of cooldown left: the
\* cooldown added is the full 2.0 s
C15_Witness ==
    /\ phase = "PostUpdate"
    /\ score = 10000
    /\ Len(bullets) = 1
    /\ players[1].bullet_timer = 1800

\* C16: when the cooldown expires while the aim is on the player, spawn_bullet
\* adds no bullet, and no bullet with a NaN or non-unit velocity ever exists.
C16_NoSpawnOnZeroDirection ==
    /\ [][/\ Runs("spawn_bullet")
          /\ players[1].bullet_timer - vdelta <= 0
          /\ aims[1] = players[1].pos
          => bullets' = bullets]_vars
    /\ [](\A i \in 1..Len(bullets) : UnitVelocity(bullets[i].vel))

\* C16: spawn_bullet has run with the aim on the player: the bullet it has spawned
\* has a NaN velocity and a NaN position
C16_Witness ==
    /\ phase = "PostUpdate"
    /\ aims[1] = players[1].pos
    /\ Len(bullets) = 1
    /\ bullets[1].vel.nan /\ bullets[1].pos.nan

(* ------------------------ C17: the bullet count ------------------------ *)

\* C17: the number of live bullets decreases only when Menu is entered, where it
\* becomes 0; it increases only by one bullet that spawn_bullet adds, in InGame;
\* it is 0 throughout Menu and does not change while the state stays Paused or
\* stays GameOver.
C17_BulletsNeverAgeOut ==
    /\ [](state = "Menu" => bullets = <<>>)
    /\ [][/\ Len(bullets') < Len(bullets)
             => state # "Menu" /\ state' = "Menu" /\ bullets' = <<>>
          /\ Len(bullets') > Len(bullets)
             => Runs("spawn_bullet") /\ state = "InGame"
                /\ Len(bullets') = Len(bullets) + 1
          /\ state \in {"Paused", "GameOver"} /\ state' = state
             => Len(bullets') = Len(bullets)]_vars

\* C17: Menu has been entered from a round in which two bullets had just bounced:
\* the burst particles are still alive and the bullets are gone
C17_Witness ==
    /\ state = "Menu"
    /\ bullets = <<>>
    /\ bounce_particles # <<>>

(* ------------------------- C18: the score text ------------------------- *)

\* the decimal digits of n, at least two of them
Padded(n) == IF n < 100 THEN <<Digits[(n \div 10) + 1], Digits[(n % 10) + 1]>> ELSE to_string(n)

\* MM:SS:CC of the count c of whole hundredths of a second
Clock(c) ==
    Padded(c \div 6000) \o <<":">> \o Padded((c \div 100) % 60) \o <<":">> \o Padded(c % 100)

\* C18: the text handle_score writes for the elapsed time with c whole hundredths
\* of a second is MM:SS:CC, MM = c div 6000, SS = (c div 100) mod 60, CC = c mod
\* 100, each padded with zeros to two digits: "00:00:00" for 0, "01:05:33" for
\* c = 6533; the seconds are below 60 and the hundredths have two digits.
C18_ScoreText ==
    [][Runs("handle_score")
       => \A i \in 1..Len(score_text') :
             LET t == score_text'[i]
                 c == score' \div 10
             IN  /\ t = Clock(c)
                 /\ c = 0 => t = <<"0", "0", ":", "0", "0", ":", "0", "0">>
                 /\ c = 6533 => t = <<"0", "1", ":", "0", "5", ":", "3", "3">>
                 /\ Len(t) >= 8
                 /\ t[Len(t) - 2] = ":" /\ t[Len(t) - 5] = ":"
                 /\ t[Len(t) - 4] \in {"0", "1", "2", "3", "4", "5"}]_vars

\* C18: handle_score has run at 65.33 s and has written "01:05:33"
C18_Witness ==
    /\ phase = "PostUpdate"
    /\ score = 65330
    /\ score_text = <<(<<"0", "1", ":", "0", "5", ":", "3", "3">>)>>

(* ---------------------- C19: the selected marker ----------------------- *)

\* C19: while the state is Menu or Paused, exactly one button has the selected
\* marker at the end of every frame.
C19_OneSelected == FrameEnd => SelectedCount(buttons) = 1

\* C19: a frame of the pause menu has ended with no button selected
C19_Witness == FrameEnd /\ state = "Paused" /\ SelectedCount(buttons) = 0

(* ------------------------- C20: the cursor ----------------------------- *)

\* C20: the cursor is hidden exactly while the state is InGame: it is visible in
\* Uninitialized, Menu, Paused and GameOver, whatever transitions came before.
C20_CursorHiddenIffInGame == cursor_visible <=> state # "InGame"

\* C20: a round has been played and paused: the cursor, hidden during the round,
\* is visible again
C20_Witness == state = "Paused" /\ cursor_visible /\ score > 0

(* ----------------------- C21: the random stream ----------------------- *)

\* the pairs that a pass on the bullets bs resolves, in the order it fetches them
ResolvedInOrder(bs, d) ==
    SelectSeq(Combinations(Len(bs)), LAMBDA c : PairBounces(bs, c, d))

C22_CollisionAfterBounce ==
    /\ [][phase = "RunFixedMainLoop" /\ phase' = "FixedUpdate" /\ state = "InGame"
          => {"move_bouncers", "handle_bullet_collision"} \subseteq todo']_vars
    /\ [][Runs("handle_bullet_collision") => "move_bouncers" \notin todo]_vars

\* C22: in a fixed step with two bullets the collision pass has run, and has
\* resolved the pair, while move_bouncers of the step is still to run
C22_Witness ==
    /\ phase = "FixedUpdate"
    /\ "handle_bullet_collision" \notin todo
    /\ "move_bouncers" \in todo
    /\ Len(bullets) = 2
    /\ Len(commands) = COLLISION_PARTICLE_COUNT

(* ---------------------- C23: the edge overshoot ------------------------ *)

\* how far the coordinate p lies beyond the margin
Overshoot(p, margin) == Max(0, Abs(p) - margin)

\* C23: a bullet that lies beyond the margin of an axis when a fixed step starts
\* (where the step before, a spawn or a pair collision has left it) does not lie
\* farther beyond it when move_bouncers of the step has run: the overshoot of an
\* axis never grows from one fixed step to the next.
C23_OvershootNeverGrows ==
    [][Runs("move_bouncers")
       => \A i \in 1..Len(bullets) :
             ~bullets[i].pos.nan /\ ~bullets'[i].pos.nan
             => /\ Overshoot(bullets'[i].pos.x, half_w(display) - Radius(display))
                      <= Overshoot(bullets[i].pos.x, half_w(display) - Radius(display))
                      \/ Overshoot(bullets[i].pos.x, half_w(display) - Radius(display)) = 0
                /\ Overshoot(bullets'[i].pos.y, half_h(display) - Radius(display))
                      <= Overshoot(bullets[i].pos.y, half_h(display) - Radius(display))
                      \/ Overshoot(bullets[i].pos.y, half_h(display) - Radius(display)) = 0]_vars

\* C23: a bullet spawned 3 x radius beyond the right margin by a player at the wall
\* has moved outwards in its first fixed step, and only then was turned round
C23_Witness ==
    /\ Len(bullets) = 1
    /\ bullets[1].pos.x > half_w(display) - Radius(display) + 3 * Radius(display)
    /\ bullets[1].vel.x < 0

(* --------------------- C24: the menu navigation ------------------------ *)

\* the inputs n of a frame hold an up pulse and no down pulse
UpPulse(n) == (n.key_up \/ n.pad_up) /\ ~(n.key_down \/ n.pad_down)

\* the inputs n of a frame hold a down pulse and no up pulse
DownPulse(n) == (n.key_down \/ n.pad_down) /\ ~(n.key_up \/ n.pad_up)

\* the inputs n of a frame hold one up pulse and one down pulse
UpAndDown(n) == n.key_up # n.pad_up /\ n.key_down # n.pad_down

\* the places of the buttons with SelectedOption, counted from 1
Marked(bs) == {i \in 1..Len(bs) : bs[i].selected}

\* the buttons bs when the navigation commands of the inputs n have been applied
Navigated(bs, n) == Applied(bs, NavCommands(bs, NavMovement(n)))

\* the buttons bs after k frames with the inputs n each
RECURSIVE Pulsed(_, _, _)
Pulsed(bs, n, k) == IF k = 0 THEN bs ELSE Pulsed(Navigated(bs, n), n, k - 1)

\* the place before i, and the place after it, in a circle of len places
Before(i, len) == IF i = 1 THEN len ELSE i - 1

After1(i, len) == IF i = len THEN 1 ELSE i + 1

Hitters(bs, p, d) == {i \in 1..Len(bs) : KillHit(bs[i].pos, p, d)}

\* C25, as the specification states it: every spawned bullet adds exactly
\* SCREENSHAKE_ON_SHOOT to the intensity, and a pass of handle_bullet_collision
\* adds exactly SCREENSHAKE_ON_BOUNCE for every pair it resolves and exactly
\* SCREENSHAKE_ON_DEATH for every bullet within the kill distance of the player,
\* however many bullets are alive.
C25_ExactContributions ==
    /\ [][Spawns => screenshake' = screenshake + SCREENSHAKE_ON_SHOOT]_vars
    /\ [][Runs("handle_bullet_collision")
          => screenshake' = screenshake
                 + Cardinality(Hitters(bullets, players[1].pos, display))
                   * SCREENSHAKE_ON_DEATH
                 + Len(ResolvedInOrder(bullets, display)) * SCREENSHAKE_ON_BOUNCE]_vars

\* C25: a pass over three bullets has ended; one bullet is within the kill
\* distance of the player, no pair was resolved, and the intensity has grown by
\* twice SCREENSHAKE_ON_DEATH
C25_Witness ==
    /\ phase = "RunFixedMainLoop"
    /\ Len(bullets) = 3
    /\ Cardinality(Hitters(bullets, players[1].pos, display)) = 1
    /\ ResolvedInOrder(bullets, display) = <<>>
    /\ next_state = "GameOver"
    /\ screenshake = 2 * SCREENSHAKE_ON_DEATH

(* ------------------- C26: the lifecycle of the particles --------------- *)

\* the TrailParticle with Entity e is alive
TrailAlive(e) == \E i \in 1..Len(trail_particles) : trail_particles[i].entity = e

\* the BounceParticle made of sample k of the stream is alive
BounceAlive(k) == \E i \in 1..Len(bounce_particles) : bounce_particles[i].sample = k

\* the particles of ps are those of qs, each as it is in qs
Kept(ps, qs) == \A i \in 1..Len(ps) : \E j \in 1..Len(qs) : qs[j] = ps[i]

\* qs is ps after a step of delta ms: every particle of ps whose lifetime would
\* get negative is missing, every other one is there with its lifetime lowered by
\* delta, and nothing else is
AgedExactly(ps, qs, delta) ==
    /\ \A i \in 1..Len(ps) :
          IF ps[i].lifetime - delta < 0
          THEN \A j \in 1..Len(qs) : [qs[j] EXCEPT !.lifetime = 0]
                                         # [ps[i] EXCEPT !.lifetime = 0]
          ELSE \E j \in 1..Len(qs) :
                  qs[j] = [ps[i] EXCEPT !.lifetime = ps[i].lifetime - delta]
    /\ Len(qs) <= Len(ps)

\* C26: the lifetime of a trail or burst particle never increases: a particle
\* changes only when its system runs, which lowers its lifetime by the delta of
\* its clock (Time<Virtual> for a trail particle, Time<Fixed> for a burst
\* particle) and despawns it in that very step if the result is negative, so that
\* no live particle has a negative lifetime; in a frame in which virtual time
\* stands still (its delta is 0) no particle ages or disappears; and if frames
\* in which virtual time advances keep coming, every particle alive is despawned
\* at last.
C26_ParticleLifecycle ==
    /\ [](/\ \A i \in 1..Len(trail_particles) : trail_particles[i].lifetime >= 0
          /\ \A i \in 1..Len(bounce_particles) : bounce_particles[i].lifetime >= 0
          /\ \A i, j \in 1..Len(trail_particles) :
                trail_particles[i].entity = trail_particles[j].entity => i = j)
    /\ [][IF Runs("handle_trail_particles")
          THEN AgedExactly(trail_particles, trail_particles', vdelta)
          ELSE Kept(trail_particles, trail_particles')]_vars
    /\ [][IF Runs("handle_bounce_particles")
          THEN AgedExactly(bounce_particles, bounce_particles', Timestep)
          ELSE Kept(bounce_particles, bounce_particles')]_vars
    /\ [][vdelta = 0 /\ vdelta' = 0
          => /\ Kept(trail_particles, trail_particles')
             /\ Kept(bounce_particles, bounce_particles')]_vars
    /\ []<><<time_system /\ vdelta' > 0>>_vars
          => /\ \A e \in 0..(MaxEntities - 1) : TrailAlive(e) ~> ~TrailAlive(e)
             /\ \A k \in 1..COLLISION_PARTICLE_COUNT : BounceAlive(k) ~> ~BounceAlive(k)

\* C26: the round is paused and Update of a frame without virtual time has run;
\* the six trail particles, two of them in their last 200 ms, and the burst, aged
\* by one fixed step, are all there
C26_Witness ==
    /\ state = "Paused"
    /\ vdelta = 0
    /\ phase = "PostUpdate"
    /\ Len(trail_particles) = 6
    /\ trail_particles[1].lifetime = TRAIL_PARTICLE_LIFETIME - 2 * Timestep
    /\ Len(bounce_particles) = COLLISION_PARTICLE_COUNT
    /\ \A i \in 1..Len(bounce_particles) :
          bounce_particles[i].lifetime = COLLISION_PARTICLE_LIFETIME - Timestep

(* ------------------ C27, C28: the PrimaryControlDevice ----------------- *)

\* no frame has started yet: the resources are as main() has inserted them
AtStartup == state = "Uninitialized" /\ phase = "First" /\ rdelta = 0

\* C27, as the specification states it: the PrimaryControlDevice is always one
\* of Keyboard, Gamepad and Mouse, and at startup, before any input has been
\* read, it is Mouse.
C27_DefaultDevice ==
    /\ primary_device \in {"Keyboard", "Gamepad", "Mouse"}
    /\ AtStartup => primary_device = "Mouse"

\* C27: the application has been built and has not run a frame; the
\* PrimaryControlDevice is Keyboard
C27_Witness == AtStartup /\ primary_device = "Keyboard"

\* some movement key is held
KeysHeld(k) == k.up \/ k.down \/ k.left \/ k.right

\* some left stick is beyond GAMEPAD_STICK_DEADZONE on an axis
LeftBeyond(ls) ==
    \E i \in 1..Len(ls) : \/ Abs(ls[i][1]) > GAMEPAD_STICK_DEADZONE
                          \/ Abs(ls[i][2]) > GAMEPAD_STICK_DEADZONE

\* some right stick is longer than GAMEPAD_AIM_DEADZONE
RightBeyond(rs) ==
    \E i \in 1..Len(rs) :
        Len2(rs[i][1], rs[i][2]) > GAMEPAD_AIM_DEADZONE * GAMEPAD_AIM_DEADZONE

\* C28, as the specification states it: when move_player has moved the player by
\* the keys alone the PrimaryControlDevice is Keyboard, when a left stick is
\* beyond its deadzone it is Gamepad, and when move_player_aim has changed the
\* aim with a right stick beyond its deadzone it is Gamepad.
C28_InputSetsDevice ==
    /\ [][(/\ Runs("move_player")
           /\ KeysHeld(input.keys) /\ ~LeftBeyond(input.left)
           /\ players' # players)
          => primary_device' = "Keyboard"]_vars
    /\ [][(Runs("move_player") /\ LeftBeyond(input.left))
          => primary_device' = "Gamepad"]_vars
    /\ [][(Runs("move_player_aim") /\ RightBeyond(input.right) /\ aims' # aims)
          => primary_device' = "Gamepad"]_vars

\* C28: the fixed step is over; only the right stick was used, the aim has been
\* eased to the right of the player by it, and the PrimaryControlDevice is Mouse
C28_Witness ==
    /\ phase = "RunFixedMainLoop"
    /\ input = [NoInput EXCEPT !.right = << <<1000, 0>> >>]
    /\ players[1].pos = Vec(0, 0)
    /\ aims[1] = Vec((GAMEPAD_AIM_DISTANCE * shorter_dimension(display) * PX) \div ONE, 0)
    /\ primary_device = "Mouse"

(* ------------------- C29: Paused and GameOver are frozen --------------- *)

Distance(a, b) == RSqrt(Len2(a.x - b.x, a.y - b.y))

\* C30, as the specification states it: a bullet that spawn_bullet has just
\* spawned is at the distance 3 * PLAYER_SIZE * shorter_dimension from the
\* player (to the unit of length), which is more than the collision distance,
\* and the kill test of handle_bullet_collision fails for it where it is.
C30_SpawnedOutOfReach ==
    [][Spawns
       => LET b == bullets'[Len(bullets')]
              p == players[1].pos
          IN  /\ ~b.pos.nan
              /\ Distance(b.pos, p) = 3 * Radius(display)
              /\ 3 * Radius(display) > collision_distance(display)
              /\ ~KillHit(b.pos, p, display)]_vars

\* C30: spawn_bullet has run on the 1920 x 1080 display with the aim on the
\* player: the second bullet has no position, and no distance from the player
C30_Witness ==
    /\ phase = "PostUpdate"
    /\ display = [w |-> 1920, h |-> 1080]
    /\ aims[1] = players[1].pos
    /\ Len(bullets) = 2
    /\ bullets[2].pos.nan
    /\ ~KillHit(bullets[2].pos, players[1].pos, display)

(* ------------------ C31: resolution has no memory ---------------------- *)

\* C31: pair resolution has no memory across fixed steps.  A fixed step runs the
\* collision pass at most once, the pass fetches every unordered pair of bullets
\* exactly once, and every pair whose distance is within the bounce window when
\* it is fetched is resolved, whether or not an earlier fixed step resolved it:
\* the pass queues 32 burst particles at the midpoint of each such pair, and for
\* each pair it resolves it adds 0.003 to the screenshake and queues one
\* "Ball_Flick.wav" audio request.
C31_NoMemory ==
    /\ [](LET cs == Combinations(Len(bullets))
          IN  /\ Len(cs) = Cardinality(Pairs(Len(bullets)))
              /\ \A c \in Pairs(Len(bullets)) : \E k \in 1..Len(cs) : cs[k] = c)
    /\ [][phase = "FixedUpdate" /\ phase' = "FixedUpdate" => todo' \subseteq todo]_vars
    /\ [][Runs("handle_bullet_collision")
          => LET new == SubSeq(commands', Len(commands) + 1, Len(commands'))
                 within == {c \in Pairs(Len(bullets)) : InWindow(bullets, c, display)}
                 k == flick_audio' - flick_audio
             IN  /\ phase = "FixedUpdate"
                 /\ k >= Cardinality(within)
                 /\ k <= Cardinality(Pairs(Len(bullets)))
                 /\ Len(new) = COLLISION_PARTICLE_COUNT * k
                 /\ screenshake' >= screenshake + SCREENSHAKE_ON_BOUNCE * k
                 /\ (screenshake' - screenshake - SCREENSHAKE_ON_BOUNCE * k)
                       % SCREENSHAKE_ON_DEATH = 0
                 /\ \A c \in within :
                       CountAt(new, AveragePosition(bullets, c))
                          >= COLLISION_PARTICLE_COUNT]_vars

\* C31: the second fixed step of a frame has resolved the pair of the first two
\* of three bullets, which the first fixed step resolved 2400 to the left: the
\* burst of the first step is alive at the old midpoint, and a second burst at
\* the new midpoint, the bounce screenshake of a third resolution and a second
\* audio request have been added
C31_Witness ==
    /\ overstep = 0
    /\ phase = "FixedUpdate"
    /\ todo = {"move_bouncers"}
    /\ Len(bullets) = 3
    /\ bullets[1].pos = Vec(2400, 0) /\ bullets[2].pos = Vec(3300, 0)
    /\ InWindow(bullets, <<1, 2>>, display)
    /\ CountAt(bounce_particles, Vec(450, 0)) = COLLISION_PARTICLE_COUNT
    /\ \A i \in 1..Len(bounce_particles) :
          bounce_particles[i].lifetime = COLLISION_PARTICLE_LIFETIME - Timestep
    /\ CountAt(commands, Vec(2850, 0)) = COLLISION_PARTICLE_COUNT
    /\ Len(commands) = COLLISION_PARTICLE_COUNT
    /\ flick_audio = 1
    /\ players[1].pos = Vec(-12000, 0)
    /\ screenshake = 3 * SCREENSHAKE_ON_BOUNCE

====
